---- MODULE Spec2Model ----
(***************************************************************************)
(* A model of the transaction-lifecycle engine of the seth client          *)
(* (src/client.go): Client.Decode and the receipt poller Client.WaitMined, *)
(* the construction of transaction options (Client.NewTXKeyOpts) that      *)
(* feeds Client.Errors, and Client.TransferETHFromKey, the second caller   *)
(* of WaitMined.                                                           *)
(*                                                                         *)
(* One caller thread runs one operation at a time.  pc is its position:    *)
(*   "idle"        no call in progress                                     *)
(*   "wm_query"    WaitMined, about to call b.TransactionReceipt (l. 592)  *)
(*   "wm_select"   WaitMined, blocked in the select (l. 610-615)           *)
(*   "after_wait"  WaitMined has returned to its caller                    *)
(*   "decode"      Decode, about to call decodeTransaction (l. 445)        *)
(*   "trace"       Decode, at the tracing-level gate (l. 468)              *)
(*   "done"        the call has returned; ret holds what it returned       *)
(*   "panic"       the call crashed the process (index out of range)       *)
(* The node, the clock and the holder of a cancel function are the         *)
(* environment.                                                            *)
(***************************************************************************)
EXTENDS Integers, Sequences, FiniteSets, TLC

(***************************************************************************)
(* Bounds of the model.                                                    *)
(***************************************************************************)
\* the most errors kept in Client.Errors
MaxErrors == 2
\* the most logs of one receipt
MaxLogs == 2
\* Cfg.Network.TxnTimeout ranges over 0..MaxTimeout clock units
MaxTimeout == 2
\* the number of loaded keys: len(Addresses) = len(PrivateKeys)
NumKeys == 2
\* the nonces the node and the nonce manager hand out range over 0..MaxNonce
MaxNonce == 2

(***************************************************************************)
(* Program constants.                                                      *)
(***************************************************************************)
TracingLevel_None == "NONE"
TracingLevel_Reverted == "REVERTED"
TracingLevel_All == "ALL"
TracingLevels == {TracingLevel_None, TracingLevel_Reverted, TracingLevel_All}

ErrNoKeyLoaded == "failed to load private key"
ErrNoABIMethod == "no ABI method found"
DebugApiMissingText == "debug_traceTransaction does not exist"

(***************************************************************************)
(* Go error values.  An error is a record with a field kind; the nil       *)
(* error is NoErr.  An error made by errors.New carries the allocation     *)
(* that made it (alloc): pkg/errors values are pointers, and two           *)
(* allocations are never the same pointer.                                 *)
(***************************************************************************)
NoErr == [kind |-> "nil"]

\* errors.New(msg) of github.com/pkg/errors, executed at allocation site alloc
ErrorsNew(msg, alloc) == [kind |-> "new", msg |-> msg, alloc |-> alloc]

\* fmt.Errorf(msg, ...)
Errorf(msg) == [kind |-> "errorf", msg |-> msg]

\* an error returned by the node's RPC surface
RpcErr(msg) == [kind |-> "rpc", msg |-> msg]

\* errors.Wrap(err, msg): nil stays nil
ErrorsWrap(err, msg) ==
  IF err = NoErr THEN NoErr ELSE [kind |-> "wrap", msg |-> msg, cause |-> err]

\* verr.Join(errs...): the nil errors are dropped; nil when nothing is left
ErrorsJoin(errs) ==
  LET kept == SelectSeq(errs, LAMBDA e : e # NoErr)
  IN IF kept = <<>> THEN NoErr ELSE [kind |-> "join", errs |-> kept]

\* errors.Is(err, target): target is found on err's Unwrap chain by pointer
\* identity; none of the error types used here has an Is method
RECURSIVE ErrorsIs(_, _)
ErrorsIs(err, target) ==
  IF err = NoErr THEN FALSE
  ELSE IF err = target THEN TRUE
  ELSE IF err.kind = "wrap" THEN ErrorsIs(err.cause, target)
  ELSE FALSE

\* strings.Contains(err.Error(), text): the message of an error and of
\* everything it wraps
RECURSIVE ErrorContains(_, _)
ErrorContains(err, text) ==
  IF err = NoErr THEN FALSE
  ELSE IF err.kind = "wrap" THEN err.msg = text \/ ErrorContains(err.cause, text)
  ELSE IF err.kind = "join" THEN \E i \in 1..Len(err.errs) : ErrorContains(err.errs[i], text)
  ELSE err.msg = text

(***************************************************************************)
(* Go contexts.  err is what ctx.Err() returns ("none" while the context   *)
(* is live); timed says whether the context has a deadline and left is the *)
(* number of clock units until it; cancellable says whether somebody       *)
(* outside the call holds a cancel function of the context or an ancestor. *)
(***************************************************************************)
\* context.Background()
Background == [err |-> "none", timed |-> FALSE, left |-> 0, cancellable |-> FALSE]

Min(a, b) == IF a <= b THEN a ELSE b

\* context.WithTimeout(parent, d): the earlier of the two deadlines; a
\* deadline that has already passed cancels the context at once
WithTimeout(parent, d) ==
  IF parent.err # "none" THEN parent
  ELSE LET l == IF parent.timed THEN Min(parent.left, d) ELSE d
       IN [err |-> IF l = 0 THEN "deadline" ELSE "none",
           timed |-> TRUE, left |-> l, cancellable |-> parent.cancellable]

\* ctx.Err()
CtxErr(c) ==
  IF c.err = "none" THEN NoErr
  ELSE IF c.err = "deadline" THEN [kind |-> "ctx", msg |-> "context deadline exceeded"]
  ELSE [kind |-> "ctx", msg |-> "context canceled"]

(***************************************************************************)
(* Transactions, receipts, decoded records.                                *)
(***************************************************************************)
NilTx == [hash |-> "nil"]
Txs == {[hash |-> "0xa"]}

NilReceipt == [nil |-> TRUE]
Receipts == {[status |-> 0], [status |-> 1]}

NilDecoded == [hash |-> "nil"]

\* the submission errors Decode is called with: a revert whose payload
\* carries a custom error of a known ABI, and one whose payload does not
TxErrs == {[kind |-> "rpc", msg |-> "execution reverted", data |-> "InsufficientBalance"],
           [kind |-> "rpc", msg |-> "execution reverted", data |-> ""]}

VARIABLES
  Cfg,        \* Client.Cfg: the configuration fields the operations read and write
  Errors,     \* Client.Errors
  Nonces,     \* NonceManager: the next nonce of every loaded key
  op,         \* the operation in progress or just returned
  pc,         \* the caller thread's position
  args,       \* the arguments of the call
  ctx,        \* WaitMined: the context it polls under
  tick,       \* WaitMined: queryTicker.C holds a tick
  poll,       \* WaitMined: receipt, err of the last b.TransactionReceipt
  wmRet,      \* WaitMined: what it returned
  revertErr,  \* Decode: revertErr
  decoded,    \* Decode: decoded
  traceErr,   \* Decode: traceErr
  events,     \* the collaborator calls made by the call so far, in order
  files,      \* the files written by the call so far
  ret,        \* what the call returned
  node,       \* the answers the node and the key library gave the call in progress
  attempt,    \* DeployContract: the attempt of retry.Do in progress
  ContractAddressToNameMap,  \* Client.ContractAddressToNameMap
  ContractStore,             \* Client.ContractStore: the names of the stored ABIs
  decodeErr,    \* Decode: decodeErr
  construction, \* NewClientRaw: its position, its inputs and what it returned
  eg,           \* NewClientRaw: the errgroup of the funding transfers and its context
  tasks,        \* NewClientRaw: the goroutines of the funding transfers
  callers       \* the goroutines that prepare transaction options at the same time

deployVars == <<attempt, ContractAddressToNameMap, ContractStore>>

bootVars == <<construction, eg, tasks>>

vars == <<Cfg, Errors, Nonces, op, pc, args, ctx, tick, poll, wmRet, revertErr,
          decoded, traceErr, events, files, ret, node, attempt,
          ContractAddressToNameMap, ContractStore, decodeErr, construction, eg, tasks,
          callers>>

NoArgs == [none |-> TRUE]
NoRet == [none |-> TRUE]
NoWmRet == [receipt |-> NilReceipt, err |-> NoErr]
NoAnswers == [none |-> TRUE]
\* no NewClientRaw in progress, no errgroup, and no goroutine besides the caller
NoConstruction == [none |-> TRUE]
NoGroup == [none |-> TRUE]

\* the locals of a call, as they are when no call is in progress
ResetLocals ==
  /\ ctx' = Background
  /\ tick' = FALSE
  /\ poll' = NoWmRet
  /\ wmRet' = NoWmRet
  /\ revertErr' = NoErr
  /\ decoded' = NilDecoded
  /\ traceErr' = NoErr
  /\ events' = <<>>
  /\ files' = {}
  /\ node' = NoAnswers
  /\ attempt' = 0
  /\ decodeErr' = NoErr

InWaitMined == pc \in {"wm_query", "wm_select"}


(***************************************************************************)
(* The environment's answers.                                              *)
(***************************************************************************)
\* ethereum.NotFound, one package-level error value
NotFound == [kind |-> "new", msg |-> "not found", alloc |-> "ethereum.NotFound"]

\* b.TransactionReceipt(ctx, hash): a receipt, "not found", or another RPC
\* error; under a context that is done the client returns the context's error
QueryResults(c) ==
  IF c.err # "none"
  THEN {[receipt |-> NilReceipt, err |-> CtxErr(c)]}
  ELSE {[receipt |-> r, err |-> NoErr] : r \in Receipts}
       \cup {[receipt |-> NilReceipt, err |-> NotFound],
             [receipt |-> NilReceipt, err |-> RpcErr("connection refused")]}

\* Client.DecodeCustomABIErr(txErr): the reason of a custom error found in
\* one of the stored ABIs, or an error when the payload cannot be decoded
DecodeCustomABIErr(txErr) ==
  IF txErr.kind = "rpc" /\ txErr.data # ""
  THEN [reason |-> txErr.data, err |-> NoErr]
  ELSE [reason |-> "", err |-> ErrorsNew("failed to decode ABI error", "DecodeCustomABIErr")]

\* Client.callAndGetRevertReason(tx, receipt): the replayed call's revert
\* reason, decoded or plain; it is an error in both cases
RevertReasons ==
  {ErrorsNew("InsufficientBalance", "callAndGetRevertReason"),
   RpcErr("execution reverted")}

\* Client.decodeTransaction(l, tx, receipt): the decoded record, and the error
\* that stopped the decoding if one did; the record is returned in every case
DecodeResults(tx) ==
  {[decoded |-> [hash |-> tx.hash, complete |-> TRUE], err |-> NoErr],
   [decoded |-> [hash |-> tx.hash, complete |-> FALSE],
    err |-> ErrorsNew(ErrNoABIMethod, "FindABIByMethod")],
   [decoded |-> [hash |-> tx.hash, complete |-> FALSE],
    err |-> ErrorsNew("failed to decode transaction input", "decodeTransaction")]}

\* Tracer.TraceGethTX(hash): nil, the node has no debug API, or another failure
TraceResults ==
  {NoErr, RpcErr(DebugApiMissingText), RpcErr("trace timed out")}

(***************************************************************************)
(* Client.WaitMined (l. 586-617).                                          *)
(***************************************************************************)
\* l. 587-590: a new ticker, and the caller's context bounded by TxnTimeout
WaitMinedEnter(parent) ==
  /\ ctx' = WithTimeout(parent, Cfg.TxnTimeout)
  /\ tick' = FALSE
  /\ poll' = NoWmRet
  /\ wmRet' = NoWmRet
  /\ pc' = "wm_query"

\* l. 593: the query's answer ends the wait
QuerySucceeded(r) == r.err = NoErr

\* a poller that gives up on an error other than "not found"
PollOutcome_SurfacesRpcError(r) ==
  IF QuerySucceeded(r)
  THEN [returns |-> TRUE, receipt |-> r.receipt, err |-> NoErr]
  ELSE IF ErrorsIs(r.err, NotFound)
  THEN [returns |-> FALSE, receipt |-> NilReceipt, err |-> NoErr]
  ELSE [returns |-> TRUE, receipt |-> NilReceipt, err |-> r.err]

\* l. 593-609: what the answer of a receipt query does to the loop: a receipt
\* is returned; "not found" (l. 600) and every other error (l. 604) are
\* logged, at different levels, and the loop goes on to the select
PollOutcome(r) ==
  IF QuerySucceeded(r)
  THEN [returns |-> TRUE, receipt |-> r.receipt, err |-> NoErr]
  ELSE IF ErrorsIs(r.err, NotFound)
  THEN [returns |-> FALSE, receipt |-> NilReceipt, err |-> NoErr]
  ELSE [returns |-> FALSE, receipt |-> NilReceipt, err |-> NoErr]

\* l. 592-609: one receipt query; a receipt is returned, any error leads to
\* the select
WMQuery ==
  /\ pc = "wm_query"
  /\ \E r \in QueryResults(ctx) :
       /\ poll' = r
       /\ LET out == PollOutcome(r)
          IN IF out.returns
             THEN /\ wmRet' = [receipt |-> out.receipt, err |-> out.err]
                  /\ pc' = "after_wait"
             ELSE /\ wmRet' = wmRet
                  /\ pc' = "wm_select"
  /\ UNCHANGED <<bootVars, callers, decodeErr, node, deployVars, Cfg, Errors, Nonces, op, args, ctx, tick, revertErr, decoded, traceErr,
                 events, files, ret>>

\* a select without the Done case
DoneReady_Never(c) == FALSE

\* l. 611: the case <-ctx.Done() can be taken
DoneReady(c) == c.err # "none"

\* l. 614: the case <-queryTicker.C can be taken
TickReady(t) == t

\* l. 611-613: the select takes the Done case and WaitMined returns ctx.Err()
WMSelectDone ==
  /\ pc = "wm_select"
  /\ DoneReady(ctx)
  /\ wmRet' = [receipt |-> NilReceipt, err |-> CtxErr(ctx)]
  /\ pc' = "after_wait"
  /\ UNCHANGED <<bootVars, callers, decodeErr, node, deployVars, Cfg, Errors, Nonces, op, args, ctx, tick, poll, revertErr,
                 decoded, traceErr, events, files, ret>>

\* l. 614-616: the select takes the ticker case and the loop queries again;
\* when both cases are ready the Go runtime takes either
WMSelectTick ==
  /\ pc = "wm_select"
  /\ TickReady(tick)
  /\ tick' = FALSE
  /\ poll' = NoWmRet
  /\ pc' = "wm_query"
  /\ UNCHANGED <<bootVars, callers, decodeErr, node, deployVars, Cfg, Errors, Nonces, op, args, ctx, wmRet, revertErr,
                 decoded, traceErr, events, files, ret>>

\* the ticker of l. 587 fires: its channel holds at most one tick
TickerFires ==
  /\ InWaitMined
  /\ ~tick
  /\ tick' = TRUE
  /\ UNCHANGED <<bootVars, callers, decodeErr, node, deployVars, Cfg, Errors, Nonces, op, pc, args, ctx, poll, wmRet, revertErr,
                 decoded, traceErr, events, files, ret>>

\* one clock unit passes; the context of l. 589 is done when its deadline is
\* reached
TimePasses ==
  /\ InWaitMined
  /\ ctx.err = "none"
  /\ ctx.timed
  /\ ctx.left > 0
  /\ ctx' = [ctx EXCEPT !.left = ctx.left - 1,
                        !.err = IF ctx.left = 1 THEN "deadline" ELSE "none"]
  /\ UNCHANGED <<bootVars, callers, decodeErr, node, deployVars, Cfg, Errors, Nonces, op, pc, args, tick, poll, wmRet, revertErr,
                 decoded, traceErr, events, files, ret>>

\* the holder of the cancel function of the caller's context calls it
CancelCtx ==
  /\ InWaitMined
  /\ ctx.cancellable
  /\ ctx.err = "none"
  /\ ctx' = [ctx EXCEPT !.err = "canceled"]
  /\ UNCHANGED <<bootVars, callers, decodeErr, node, deployVars, Cfg, Errors, Nonces, op, pc, args, tick, poll, wmRet, revertErr,
                 decoded, traceErr, events, files, ret>>


(***************************************************************************)
(* Client.Decode (l. 408-529).                                             *)
(***************************************************************************)
\* a pre-check that lets a single accumulated error through
HasAccumulatedErrors_MoreThanOne(errors) == Len(errors) > 1

\* l. 409: the client holds accumulated errors
HasAccumulatedErrors(errors) == Len(errors) > 0

\* a failed submission reported by the error of the decoding attempt
SubmissionError_ReturnsDecodingErr(txErr) ==
  LET r == DecodeCustomABIErr(txErr)
  IN IF r.err = NoErr THEN ErrorsWrap(txErr, r.reason) ELSE r.err

\* l. 414-422: the error returned for a failed submission
SubmissionError(txErr) ==
  LET r == DecodeCustomABIErr(txErr)
  IN IF r.err = NoErr THEN ErrorsWrap(txErr, r.reason) ELSE txErr

\* a nil check that never finds a nil transaction
IsNilTx_Never(tx) == FALSE

\* l. 425: no transaction was produced
IsNilTx(tx) == tx = NilTx

\* l. 409-429: what Decode returns before any wait, if it returns there
DecodeEarlyReturn(errors, tx, txErr) ==
  IF HasAccumulatedErrors(errors)
  THEN [returns |-> TRUE, decoded |-> NilDecoded, err |-> ErrorsJoin(errors)]
  ELSE IF txErr # NoErr
  THEN [returns |-> TRUE, decoded |-> NilDecoded, err |-> SubmissionError(txErr)]
  ELSE IF IsNilTx(tx)
  THEN [returns |-> TRUE, decoded |-> NilDecoded, err |-> NoErr]
  ELSE [returns |-> FALSE, decoded |-> NilDecoded, err |-> NoErr]

\* l. 408-432: the call of Decode(tx, txErr), up to the call of WaitMined
DecodeCall(tx, txErr) ==
  /\ pc = "idle"
  /\ op' = "Decode"
  /\ args' = [tx |-> tx, txErr |-> txErr]
  /\ LET e == DecodeEarlyReturn(Errors, tx, txErr)
     IN IF e.returns
        THEN /\ ret' = [decoded |-> e.decoded, err |-> e.err]
             /\ pc' = "done"
             /\ UNCHANGED <<ctx, tick, poll, wmRet, events>>
        ELSE /\ ret' = NoRet
             /\ events' = <<"WaitMined">>
             /\ WaitMinedEnter(Background)
  /\ UNCHANGED <<bootVars, callers, decodeErr, node, deployVars, Cfg, Errors, Nonces, revertErr, decoded, traceErr, files>>

\* the operations that call Decode: a caller of the client, and
\* DeployContract after a failed deployment (l. 1112)
DecodeCallers == {"Decode", "DeployContract"}

\* where a return of Decode leads: to the caller of the client, or back into
\* DeployContract, which drops what Decode returned
DecodeReturnsTo(o) == IF o = "DeployContract" THEN "deploy_failed" ELSE "done"

\* a classification that takes every mined transaction for a revert
IsReverted_Always(receipt) == TRUE

\* a classification that replays the transactions that succeeded
IsReverted_OnSuccess(receipt) == receipt.status # 0

\* l. 441: the receipt says the transaction reverted
IsReverted(receipt) == receipt.status = 0

\* a failed wait whose error is swallowed
WaitMinedFailure_Swallowed(err) == [decoded |-> NilDecoded, err |-> NoErr]

\* l. 433-438: what Decode returns when WaitMined failed
WaitMinedFailure(err) == [decoded |-> NilDecoded, err |-> err]

\* l. 433-443: WaitMined's error ends the call; a reverted transaction is
\* replayed for its revert reason
DecodeClassify ==
  /\ pc = "after_wait"
  /\ op \in DecodeCallers
  /\ IF wmRet.err # NoErr
     THEN /\ ret' = WaitMinedFailure(wmRet.err)
          /\ pc' = DecodeReturnsTo(op)
          /\ UNCHANGED <<revertErr, events>>
     ELSE /\ IF IsReverted(wmRet.receipt)
             THEN /\ \E reason \in RevertReasons : revertErr' = reason
                  /\ events' = Append(events, "callAndGetRevertReason")
             ELSE /\ revertErr' = NoErr
                  /\ events' = events
          /\ pc' = "decode"
          /\ ret' = ret
  /\ UNCHANGED <<bootVars, callers, decodeErr, node, deployVars, Cfg, Errors, Nonces, op, args, ctx, tick, poll, wmRet, decoded, traceErr, files>>

\* a return that drops the record when there is a revert error
DecodeReturn_RecordOrError(d, rErr) ==
  [decoded |-> IF rErr # NoErr THEN NilDecoded ELSE d, err |-> rErr]

\* l. 465, 472, 504, 528: the record and the revert error, together
DecodeReturn(d, rErr) == [decoded |-> d, err |-> rErr]

\* l. 447: errors.Is(decodeErr, errors.New(ErrNoABIMethod)); the target is
\* allocated by this very call of errors.New
IsNoABIMethod(dErr) ==
  dErr # NoErr /\ ErrorsIs(dErr, ErrorsNew(ErrNoABIMethod, "Decode"))

\* a write that also leaves a second file, not keyed by the hash
WriteFile_AlsoLatest(f, ok) ==
  IF ok THEN files' = files \cup {f, [path |-> "traces/latest", content |-> f.content]}
  ELSE files' = files

\* a file write succeeds or fails; a failure is logged and leaves no file
WriteFile(f, ok) == IF ok THEN files' = files \cup {f} ELSE files' = files

\* l. 445-466: decodeTransaction, and the return taken when no ABI method
\* was found
DecodeTransaction ==
  /\ pc = "decode"
  /\ \E d \in DecodeResults(args.tx) :
       /\ decoded' = d.decoded
       /\ decodeErr' = d.err
       /\ IF IsNoABIMethod(d.err)
          THEN /\ IF Cfg.TraceToJson
                  THEN /\ \E ok \in BOOLEAN :
                            WriteFile([path |-> "reverted_transactions",
                                       content |-> args.tx.hash], ok)
                       /\ events' = events \o <<"decodeTransaction", "CreateOrAppendToJsonArray">>
                  ELSE /\ files' = files
                       /\ events' = Append(events, "decodeTransaction")
               /\ ret' = DecodeReturn(d.decoded, revertErr)
               /\ pc' = DecodeReturnsTo(op)
          ELSE /\ events' = Append(events, "decodeTransaction")
               /\ pc' = "trace"
               /\ UNCHANGED <<files, ret>>
  /\ UNCHANGED <<bootVars, callers, node, deployVars, Cfg, Errors, Nonces, op, args, ctx, tick, poll, wmRet, revertErr, traceErr>>

\* a gate that ignores whether the transaction reverted
TraceGate_IgnoresRevert(level, rErr) ==
  level = TracingLevel_All \/ level = TracingLevel_Reverted

\* l. 475: the transaction is to be traced
TraceGate(level, rErr) ==
  level = TracingLevel_All \/ (level = TracingLevel_Reverted /\ rErr # NoErr)

\* l. 496: the trace failed because the node has no debug API
IsDebugApiMissing(tErr) == ErrorContains(tErr, DebugApiMissingText)

\* a failed trace that leaves the tracing level as it was
LevelAfterTraceErr_Keeps(level, tErr) == level

\* l. 501: the tracing level after a failed trace
LevelAfterTraceErr(level, tErr) ==
  IF IsDebugApiMissing(tErr) THEN TracingLevel_None ELSE level

\* l. 468-529: the tracing-level gate, the trace and what follows it
DecodeTrace ==
  /\ pc = "trace"
  /\ IF Cfg.TracingLevel = TracingLevel_None
     THEN UNCHANGED <<Cfg, traceErr, events, files>>
     ELSE IF TraceGate(Cfg.TracingLevel, revertErr)
     THEN \E tErr \in TraceResults :
          /\ traceErr' = tErr
          /\ IF tErr # NoErr
            THEN /\ IF Cfg.TraceToJson
                    THEN /\ \E ok \in BOOLEAN :
                              WriteFile([path |-> "traces/" \o decoded.hash,
                                         content |-> "DecodedTransaction"], ok)
                         /\ events' = events \o <<"TraceGethTX", "saveAsJson">>
                    ELSE /\ files' = files
                         /\ events' = Append(events, "TraceGethTX")
                 /\ Cfg' = [Cfg EXCEPT !.TracingLevel =
                                         LevelAfterTraceErr(Cfg.TracingLevel, tErr)]
            ELSE /\ IF Cfg.TraceToJson
                    THEN /\ \E ok \in BOOLEAN :
                              WriteFile([path |-> "traces/" \o decoded.hash,
                                         content |-> "DecodedCalls"], ok)
                         /\ events' = events \o <<"TraceGethTX", "saveAsJson">>
                    ELSE /\ files' = files
                         /\ events' = Append(events, "TraceGethTX")
                 /\ Cfg' = Cfg
     ELSE UNCHANGED <<Cfg, traceErr, events, files>>
  /\ ret' = DecodeReturn(decoded, revertErr)
  /\ pc' = DecodeReturnsTo(op)
  /\ UNCHANGED <<bootVars, callers, decodeErr, node, deployVars, Errors, Nonces, op, args, ctx, tick, poll, wmRet, revertErr, decoded>>

\* the call has returned and the caller goes on
Finish ==
  /\ pc = "done"
  /\ pc' = "idle"
  /\ op' = "none"
  /\ args' = NoArgs
  /\ ret' = NoRet
  /\ ResetLocals
  /\ UNCHANGED <<bootVars, callers, Cfg, Errors, Nonces, ContractAddressToNameMap, ContractStore>>


(***************************************************************************)
(* Transaction options: Client.NewTXKeyOpts (l. 774-809) and what it calls.*)
(***************************************************************************)
ZeroGasSuggestedErr == "either base fee or suggested tip is 0"
EIP1559UnsupportedText == "method eth_maxPriorityFeePerGas"

\* a nil *big.Int, and a *big.Int holding v
NilInt == [nil |-> TRUE]
BigInt(v) == [v |-> v]

\* &bind.TransactOpts{}
EmptyOpts ==
  [Signer |-> FALSE, Nonce |-> NilInt, GasPrice |-> NilInt, GasFeeCap |-> NilInt,
   GasTipCap |-> NilInt, GasLimit |-> "0", ContextErr |-> NoErr]

\* GasEstimations{}
NoEstimations == [GasPrice |-> NilInt, GasFeeCap |-> NilInt, GasTipCap |-> NilInt]

\* the options a caller passes: none, or one that sets a field
TransactOpts == {<<>>, <<[field |-> "GasPrice", value |-> BigInt("WithGasPrice")]>>}

\* Client.PendingNonceAt / Client.NonceAt for a key: a failed read, or the
\* node's pending and confirmed nonce
NonceReads ==
  {[err |-> RpcErr("failed to get nonce"), PendingNonce |-> 0, LastNonce |-> 0]}
  \cup {r \in [err : {NoErr}, PendingNonce : 0..MaxNonce, LastNonce : 0..MaxNonce] :
          r.PendingNonce >= r.LastNonce}

\* GetSuggestedEIP1559Fees: fees, a zero suggestion, an unsupported method, or
\* another failure
EIP1559FeeResults ==
  {[err |-> NoErr], [err |-> RpcErr(ZeroGasSuggestedErr)],
   [err |-> RpcErr(EIP1559UnsupportedText)], [err |-> RpcErr("connection refused")]}

\* GetSuggestedLegacyFees: a price, a zero suggestion, or another failure
LegacyFeeResults ==
  {[err |-> NoErr], [err |-> RpcErr(ZeroGasSuggestedErr)],
   [err |-> RpcErr("connection refused")]}

\* the fee queries CalculateGasEstimations makes under cfg (l. 931, 960), and
\* the answers they can get; a query that is not made has the answer NoQuery
NoQuery == [err |-> NoErr, made |-> FALSE]
FeeAnswers(cfg, enabled) ==
  IF cfg.Simulated \/ ~enabled
  THEN {[dyn |-> NoQuery, leg |-> NoQuery]}
  ELSE IF cfg.EIP1559DynamicFees
  THEN {[dyn |-> d, leg |-> NoQuery] :
          d \in {x \in EIP1559FeeResults : x.err = NoErr \/ x.err.msg # EIP1559UnsupportedText}}
       \cup {[dyn |-> d, leg |-> l] :
               d \in {x \in EIP1559FeeResults : x.err # NoErr /\ x.err.msg = EIP1559UnsupportedText},
               l \in LegacyFeeResults}
  ELSE {[dyn |-> NoQuery, leg |-> l] : l \in LegacyFeeResults}

\* a nonce status that takes the nonce after the node's pending nonce, as an
\* allocation would
getNonceStatus_Allocates(read) ==
  IF read.err # NoErr
  THEN [status |-> [LastNonce |-> 0, PendingNonce |-> 0], err |-> read.err]
  ELSE [status |-> [LastNonce |-> read.LastNonce, PendingNonce |-> read.PendingNonce + 1],
        err |-> NoErr]

\* l. 827-845
getNonceStatus(read) ==
  IF read.err # NoErr
  THEN [status |-> [LastNonce |-> 0, PendingNonce |-> 0], err |-> read.err]
  ELSE [status |-> [LastNonce |-> read.LastNonce, PendingNonce |-> read.PendingNonce],
        err |-> NoErr]

\* l. 916-924
NewDefaultGasEstimationRequest(cfg) ==
  [GasEstimationEnabled |-> cfg.GasPriceEstimationEnabled,
   FallbackGasPrice |-> BigInt("Cfg.GasPrice"),
   FallbackGasFeeCap |-> BigInt("Cfg.GasFeeCap"),
   FallbackGasTipCap |-> BigInt("Cfg.GasTipCap")]

\* a zero suggestion that leaves estimation on
disableEstimationsIfNeeded_Never(cfg, err) == cfg

\* l. 942-947
disableEstimationsIfNeeded(cfg, err) ==
  IF ErrorContains(err, ZeroGasSuggestedErr)
  THEN [cfg EXCEPT !.GasPriceEstimationEnabled = FALSE]
  ELSE cfg

\* a legacy query whose failure leaves the price unset
calculateLegacyFees_NoFallback(cfg, request, estimations, leg) ==
  IF leg.err # NoErr
  THEN [cfg |-> disableEstimationsIfNeeded(cfg, leg.err),
        estimations |-> estimations,
        queries |-> <<"GetSuggestedLegacyFees">>]
  ELSE [cfg |-> cfg,
        estimations |-> [estimations EXCEPT !.GasPrice = BigInt("suggested GasPrice")],
        queries |-> <<"GetSuggestedLegacyFees">>]

\* l. 949-958: the estimations and the configuration after calculateLegacyFees
calculateLegacyFees(cfg, request, estimations, leg) ==
  IF leg.err # NoErr
  THEN [cfg |-> disableEstimationsIfNeeded(cfg, leg.err),
        estimations |-> [estimations EXCEPT !.GasPrice = request.FallbackGasPrice],
        queries |-> <<"GetSuggestedLegacyFees">>]
  ELSE [cfg |-> cfg,
        estimations |-> [estimations EXCEPT !.GasPrice = BigInt("suggested GasPrice")],
        queries |-> <<"GetSuggestedLegacyFees">>]

\* a skip that looks at the request only
EstimationSkipped_OnlyRequest(cfg, request) == ~request.GasEstimationEnabled

\* l. 931: no estimation is made
EstimationSkipped(cfg, request) == cfg.Simulated \/ ~request.GasEstimationEnabled

\* a check that never takes a failure for "unsupported"
IsEIP1559Unsupported_Never(err) == FALSE

\* l. 969: the node does not support the dynamic-fee methods
IsEIP1559Unsupported(err) == ErrorContains(err, EIP1559UnsupportedText)

\* l. 928-986: the estimations returned, the configuration left behind and
\* the fee queries made, in order; dyn and leg are the node's answers to the
\* two fee queries
CalculateGasEstimations(cfg, request, dyn, leg) ==
  IF EstimationSkipped(cfg, request)
  THEN [cfg |-> cfg,
        estimations |-> [GasPrice |-> request.FallbackGasPrice,
                         GasFeeCap |-> request.FallbackGasFeeCap,
                         GasTipCap |-> request.FallbackGasTipCap],
        queries |-> <<>>]
  ELSE IF cfg.EIP1559DynamicFees
  THEN IF dyn.err # NoErr
       THEN LET est == [NoEstimations EXCEPT !.GasFeeCap = request.FallbackGasFeeCap,
                                             !.GasTipCap = request.FallbackGasTipCap]
                cfg1 == disableEstimationsIfNeeded(cfg, dyn.err)
            IN IF IsEIP1559Unsupported(dyn.err)
               THEN LET l == calculateLegacyFees([cfg1 EXCEPT !.EIP1559DynamicFees = FALSE],
                                                 request, est, leg)
                    IN [l EXCEPT !.queries = <<"GetSuggestedEIP1559Fees">> \o l.queries]
               ELSE [cfg |-> cfg1, estimations |-> est,
                     queries |-> <<"GetSuggestedEIP1559Fees">>]
       ELSE [cfg |-> cfg,
             estimations |-> [NoEstimations EXCEPT !.GasFeeCap = BigInt("suggested GasFeeCap"),
                                                   !.GasTipCap = BigInt("suggested GasTipCap")],
             queries |-> <<"GetSuggestedEIP1559Fees">>]
  ELSE calculateLegacyFees(cfg, request, NoEstimations, leg)

\* l. 1020-1022: the caller's options, applied in order
RECURSIVE ApplyTransactOpts(_, _)
ApplyTransactOpts(opts, o) ==
  IF o = <<>> THEN opts
  ELSE ApplyTransactOpts([opts EXCEPT ![Head(o).field] = Head(o).value], Tail(o))

\* a configuration that applies the caller's options first, so that the
\* computed values replace them
configureTransactionOpts_OverridesFirst(cfg, opts, nonce, estimations, o) ==
  LET base == [ApplyTransactOpts(opts, o) EXCEPT !.Nonce = BigInt(nonce),
                                                 !.GasPrice = estimations.GasPrice,
                                                 !.GasLimit = "Cfg.GasLimit"]
  IN IF cfg.EIP1559DynamicFees
     THEN [base EXCEPT !.GasPrice = NilInt,
                       !.GasTipCap = estimations.GasTipCap,
                       !.GasFeeCap = estimations.GasFeeCap]
     ELSE base

\* l. 1005-1024
configureTransactionOpts(cfg, opts, nonce, estimations, o) ==
  LET base == [opts EXCEPT !.Nonce = BigInt(nonce),
                           !.GasPrice = estimations.GasPrice,
                           !.GasLimit = "Cfg.GasLimit"]
      priced == IF cfg.EIP1559DynamicFees
                THEN [base EXCEPT !.GasPrice = NilInt,
                                  !.GasTipCap = estimations.GasTipCap,
                                  !.GasFeeCap = estimations.GasFeeCap]
                ELSE base
  IN ApplyTransactOpts(priced, o)

\* a protection that is on whatever the configuration says
PendingNonceGap_IgnoresSetting(cfg, status) == status.PendingNonce > status.LastNonce

\* l. 860-861: the pending-nonce protection finds a gap
PendingNonceGap(cfg, status) ==
  cfg.PendingNonceProtectionEnabled /\ status.PendingNonce > status.LastNonce

\* a failed nonce read that poisons the options without recording the error
getProposedTransactionOptions_SilentNonceFailure(cfg, keyNum, read, dyn, leg, transactorFails) ==
  LET ns == getNonceStatus(read)
  IN IF ns.err # NoErr
     THEN [opts |-> [EmptyOpts EXCEPT !.ContextErr = ns.err],
           nonceStatus |-> [LastNonce |-> 0, PendingNonce |-> 0],
           estimations |-> NoEstimations,
           appended |-> <<>>, cfg |-> cfg,
           events |-> <<"getNonceStatus">>]
     ELSE LET gapErr == IF PendingNonceGap(cfg, ns.status)
                        THEN Errorf("pending nonce is higher than last nonce")
                        ELSE NoErr
              g == CalculateGasEstimations(cfg, NewDefaultGasEstimationRequest(cfg), dyn, leg)
              tErr == ErrorsWrap(RpcErr("no chain id specified"), "failed to create transactor")
          IN IF transactorFails
             THEN [opts |-> [EmptyOpts EXCEPT !.ContextErr = tErr],
                   nonceStatus |-> [LastNonce |-> 0, PendingNonce |-> 0],
                   estimations |-> NoEstimations,
                   appended |-> IF gapErr # NoErr THEN <<gapErr, tErr>> ELSE <<tErr>>,
                   cfg |-> g.cfg,
                   events |-> <<"getNonceStatus">> \o g.queries
                              \o <<"NewKeyedTransactorWithChainID">>]
             ELSE [opts |-> [EmptyOpts EXCEPT !.Signer = TRUE, !.ContextErr = gapErr],
                   nonceStatus |-> ns.status,
                   estimations |-> g.estimations,
                   appended |-> IF gapErr # NoErr THEN <<gapErr>> ELSE <<>>,
                   cfg |-> g.cfg,
                   events |-> <<"getNonceStatus">> \o g.queries
                              \o <<"NewKeyedTransactorWithChainID">>]

\* l. 848-905: the options, the nonce status and the estimations proposed,
\* the errors appended to Client.Errors and the configuration left behind
getProposedTransactionOptions(cfg, keyNum, read, dyn, leg, transactorFails) ==
  LET ns == getNonceStatus(read)
  IN IF ns.err # NoErr
     THEN [opts |-> [EmptyOpts EXCEPT !.ContextErr = ns.err],
           nonceStatus |-> [LastNonce |-> 0, PendingNonce |-> 0],
           estimations |-> NoEstimations,
           appended |-> <<ns.err>>, cfg |-> cfg,
           events |-> <<"getNonceStatus">>]
     ELSE LET gapErr == IF PendingNonceGap(cfg, ns.status)
                        THEN Errorf("pending nonce is higher than last nonce")
                        ELSE NoErr
              g == CalculateGasEstimations(cfg, NewDefaultGasEstimationRequest(cfg), dyn, leg)
              tErr == ErrorsWrap(RpcErr("no chain id specified"), "failed to create transactor")
          IN IF transactorFails
             THEN [opts |-> [EmptyOpts EXCEPT !.ContextErr = tErr],
                   nonceStatus |-> [LastNonce |-> 0, PendingNonce |-> 0],
                   estimations |-> NoEstimations,
                   appended |-> IF gapErr # NoErr THEN <<gapErr, tErr>> ELSE <<tErr>>,
                   cfg |-> g.cfg,
                   events |-> <<"getNonceStatus">> \o g.queries
                              \o <<"NewKeyedTransactorWithChainID">>]
             ELSE [opts |-> [EmptyOpts EXCEPT !.Signer = TRUE, !.ContextErr = gapErr],
                   nonceStatus |-> ns.status,
                   estimations |-> g.estimations,
                   appended |-> IF gapErr # NoErr THEN <<gapErr>> ELSE <<>>,
                   cfg |-> g.cfg,
                   events |-> <<"getNonceStatus">> \o g.queries
                              \o <<"NewKeyedTransactorWithChainID">>]

\* l. 775: keyNum is rejected
KeyNumOutOfRange(keyNum) == keyNum > NumKeys \/ keyNum < 0

\* a list that keeps only the errors of the last failed call
AppendErrors_KeepsLastCall(errors, appended) ==
  IF appended = <<>> THEN errors ELSE appended

\* l. 782, 851, 870, 891: m.Errors = append(m.Errors, err), for every error of
\* the call in order
AppendErrors(errors, appended) == errors \o appended

\* the answers a call that prepares options for a loaded key can get: the
\* nonce read, the fee queries that are made, and the creation of the signer
\* (l. 888), which is reached only after a successful nonce read
ProposalAnswers(cfg) ==
  {[read |-> r, dyn |-> NoQuery, leg |-> NoQuery, transactorFails |-> FALSE] :
     r \in {x \in NonceReads : x.err # NoErr}}
  \cup {[read |-> r, dyn |-> f.dyn, leg |-> f.leg, transactorFails |-> t] :
          r \in {x \in NonceReads : x.err = NoErr},
          f \in FeeAnswers(cfg, cfg.GasPriceEstimationEnabled),
          t \in BOOLEAN}

\* l. 759-760, 796-798: getProposedTransactionOptions and
\* configureTransactionOpts for a loaded key, under the answers a
PrepareOpts(keyNum, o, a) ==
  LET p == getProposedTransactionOptions(Cfg, keyNum, a.read, a.dyn, a.leg,
                                         a.transactorFails)
  IN /\ Len(Errors) + Len(p.appended) <= MaxErrors
     /\ Errors' = AppendErrors(Errors, p.appended)
     /\ Cfg' = p.cfg
     /\ ret' = configureTransactionOpts(p.cfg, p.opts, p.nonceStatus.PendingNonce,
                                        p.estimations, o)
     /\ events' = p.events
     /\ node' = a
     /\ pc' = "done"

\* l. 774-809
NewTXKeyOpts(keyNum, o) ==
  /\ pc = "idle"
  /\ op' = "NewTXKeyOpts"
  /\ args' = [keyNum |-> keyNum, o |-> o]
  /\ IF KeyNumOutOfRange(keyNum)
     THEN LET err == ErrorsNew("keyNum is out of range", "NewTXKeyOpts")
          IN /\ Len(Errors) < MaxErrors
             /\ Errors' = AppendErrors(Errors, <<err>>)
             /\ ret' = [EmptyOpts EXCEPT !.ContextErr = err]
             /\ pc' = "done"
             /\ UNCHANGED <<Cfg, events, node>>
     ELSE IF keyNum \notin 0..(NumKeys - 1)
     THEN \* l. 794: m.Addresses[keyNum] is an index out of range
          /\ pc' = "panic"
          /\ ret' = NoRet
          /\ UNCHANGED <<Cfg, Errors, events, node>>
     ELSE \E a \in ProposalAnswers(Cfg) : PrepareOpts(keyNum, o, a)
  /\ UNCHANGED <<bootVars, callers, decodeErr, deployVars, Nonces, ctx, tick, poll, wmRet, revertErr, decoded, traceErr,
                 files>>

\* l. 758-770: NewTXOpts prepares options for key 0
NewTXOpts(o) ==
  /\ pc = "idle"
  /\ op' = "NewTXOpts"
  /\ args' = [keyNum |-> 0, o |-> o]
  /\ \E a \in ProposalAnswers(Cfg) : PrepareOpts(0, o, a)
  /\ UNCHANGED <<bootVars, callers, decodeErr, deployVars, Nonces, ctx, tick, poll, wmRet, revertErr, decoded, traceErr,
                 files>>

\* the requests CalculateGasEstimations is called with: the default one, and
\* a caller's own with its own fallback values
GasEstimationRequests(cfg) ==
  {NewDefaultGasEstimationRequest(cfg)}
  \cup {[GasEstimationEnabled |-> e,
          FallbackGasPrice |-> BigInt("request.FallbackGasPrice"),
          FallbackGasFeeCap |-> BigInt("request.FallbackGasFeeCap"),
          FallbackGasTipCap |-> BigInt("request.FallbackGasTipCap")] : e \in BOOLEAN}

\* l. 928-986: a call of the exported CalculateGasEstimations(request)
CalculateGasEstimationsCall(request) ==
  /\ pc = "idle"
  /\ op' = "CalculateGasEstimations"
  /\ args' = [request |-> request]
  /\ \E f \in FeeAnswers(Cfg, request.GasEstimationEnabled) :
       LET g == CalculateGasEstimations(Cfg, request, f.dyn, f.leg)
       IN /\ Cfg' = g.cfg
          /\ ret' = g.estimations
          /\ events' = g.queries
          /\ node' = [dyn |-> f.dyn, leg |-> f.leg]
  /\ pc' = "done"
  /\ UNCHANGED <<bootVars, callers, decodeErr, deployVars, Errors, Nonces, ctx, tick, poll, wmRet, revertErr, decoded,
                 traceErr, files>>

(***************************************************************************)
(* Client.TransferETHFromKey (l. 531-583).                                 *)
(***************************************************************************)
\* the contexts TransferETHFromKey is called with: the funding group's
\* context, live or already cancelled (l. 328), and the health check's
\* context with its deadline (l. 386)
TransferCtxs ==
  {[err |-> "none", timed |-> FALSE, left |-> 0, cancellable |-> TRUE],
   [err |-> "canceled", timed |-> FALSE, left |-> 0, cancellable |-> TRUE],
   WithTimeout(Background, Cfg.TxnTimeout)}

\* l. 532: fromKeyNum is rejected
FromKeyNumRejected(fromKeyNum) == fromKeyNum > NumKeys

\* a nonce manager that hands out the key's nonce without advancing it
NextNonce_NoAdvance(nonces, k) == [nonce |-> nonces[k], nonces |-> nonces]

\* NonceManager.NextNonce(addr): the key's next nonce, and the counter advanced
NextNonce(nonces, k) == [nonce |-> nonces[k], nonces |-> [nonces EXCEPT ![k] = nonces[k] + 1]]

\* l. 531-578: the call of TransferETHFromKey, up to the call of WaitMined
TransferETHFromKey(fromKeyNum, parent) ==
  /\ pc = "idle"
  /\ op' = "TransferETHFromKey"
  /\ args' = [fromKeyNum |-> fromKeyNum, ctx |-> parent]
  /\ IF FromKeyNumRejected(fromKeyNum)
     THEN /\ ret' = [err |-> ErrorsWrap(ErrorsNew(ErrNoKeyLoaded, "TransferETHFromKey"),
                                        "requested key")]
          /\ pc' = "done"
          /\ events' = <<>>
          /\ UNCHANGED <<Nonces, ctx, tick, poll, wmRet>>
     ELSE \E networkOk \in BOOLEAN :
       IF ~networkOk
       THEN /\ ret' = [err |-> ErrorsWrap(RpcErr("connection refused"), "failed to get network ID")]
            /\ pc' = "done"
            /\ events' = <<"NetworkID">>
            /\ UNCHANGED <<Nonces, ctx, tick, poll, wmRet>>
       ELSE IF fromKeyNum \notin 0..(NumKeys - 1)
       THEN \* l. 542: m.Addresses[fromKeyNum] is an index out of range
            /\ pc' = "panic"
            /\ ret' = NoRet
            /\ events' = <<"NetworkID">>
            /\ UNCHANGED <<Nonces, ctx, tick, poll, wmRet>>
       ELSE /\ Nonces[fromKeyNum] < MaxNonce
            /\ Nonces' = NextNonce(Nonces, fromKeyNum).nonces
            /\ \E signOk \in BOOLEAN, sendOk \in BOOLEAN :
                 LET c == WithTimeout(parent, Cfg.TxnTimeout)
                 IN IF ~signOk
                    THEN /\ ret' = [err |-> ErrorsWrap(RpcErr("invalid key"), "failed to sign tx")]
                         /\ pc' = "done"
                         /\ events' = <<"NetworkID", "EstimateGas", "NextNonce", "SignNewTx">>
                         /\ UNCHANGED <<ctx, tick, poll, wmRet>>
                    ELSE IF c.err # "none" \/ ~sendOk
                    THEN /\ ret' = [err |-> ErrorsWrap(IF c.err # "none" THEN CtxErr(c)
                                                       ELSE RpcErr("connection refused"),
                                                       "failed to send transaction")]
                         /\ pc' = "done"
                         /\ events' = <<"NetworkID", "EstimateGas", "NextNonce", "SignNewTx",
                                        "SendTransaction">>
                         /\ UNCHANGED <<ctx, tick, poll, wmRet>>
                    ELSE /\ ret' = NoRet
                         /\ events' = <<"NetworkID", "EstimateGas", "NextNonce", "SignNewTx",
                                        "SendTransaction", "WaitMined">>
                         /\ WaitMinedEnter(c)
  /\ UNCHANGED <<bootVars, callers, decodeErr, node, deployVars, Cfg, Errors, revertErr, decoded, traceErr, files>>

\* l. 578-582: WaitMined's error is the transfer's error
TransferReturn ==
  /\ pc = "after_wait"
  /\ op = "TransferETHFromKey"
  /\ ret' = [err |-> wmRet.err]
  /\ pc' = "done"
  /\ UNCHANGED <<bootVars, callers, decodeErr, node, deployVars, Cfg, Errors, Nonces, op, args, ctx, tick, poll, wmRet, revertErr,
                 decoded, traceErr, events, files>>

(***************************************************************************)
(* Client.DeployContract (l. 1054-1132).                                   *)
(***************************************************************************)
\* retry.Attempts(10), l. 1104
DeployAttempts == 10

NoCodeAtAddressText == "no contract code at given address"
NoCodeAfterDeploymentText == "no contract code after deployment"

\* DeploymentData{}
EmptyDeploymentData == [Address |-> "", Transaction |-> NilTx, BoundContract |-> FALSE]

\* wrapErrInMessageWithASuggestion(err): err with a hint added to its message
wrapErrInMessageWithASuggestion(err) ==
  [kind |-> "wrap", msg |-> "suggestion", cause |-> err]

\* the options DeployContract is called with: healthy ones, and ones whose
\* context carries the error of their preparation (l. 788, 853, 874, 895)
DeployAuths ==
  {[EmptyOpts EXCEPT !.Signer = TRUE],
   [EmptyOpts EXCEPT !.ContextErr = ErrorsNew("keyNum is out of range", "NewTXKeyOpts")],
   [EmptyOpts EXCEPT !.Signer = TRUE,
                     !.ContextErr = Errorf("pending nonce is higher than last nonce")]}

ContractNames == {"Counter"}

\* bind.DeployContract: the submission fails, or gives an address and the
\* deployment transaction
DeployResults ==
  {[err |-> RpcErr("insufficient funds"), tx |-> NilTx, address |-> ""]}
  \cup {[err |-> NoErr, tx |-> t, address |-> "0xc1"] : t \in Txs}

\* bind.WaitDeployed under a context bounded by TxnTimeout (l. 1083-1084):
\* the code is there, the wait timed out, the transaction is mined but the
\* address holds no code, or another failure
WaitDeployedResults(cfg) ==
  IF cfg.TxnTimeout = 0
  THEN {CtxErr(WithTimeout(Background, 0))}
  ELSE {NoErr, [kind |-> "ctx", msg |-> "context deadline exceeded"],
        RpcErr(NoCodeAfterDeploymentText), RpcErr("connection refused")}

\* a check that never finds an error in the context
HasContextError_Never(auth) == FALSE

\* l. 1058-1059: the context of the options carries an error
HasContextError(auth) == auth.ContextErr # NoErr

\* l. 1058-1078: the check of the options, the submission, and the records
\* of the new contract in the address map and the ABI store
DeployContractCall(auth, name) ==
  /\ pc = "idle"
  /\ op' = "DeployContract"
  /\ IF HasContextError(auth)
     THEN /\ args' = [auth |-> auth, name |-> name, tx |-> NilTx, address |-> ""]
          /\ ret' = [data |-> EmptyDeploymentData,
                     err |-> ErrorsWrap(auth.ContextErr, "aborted contract deployment")]
          /\ pc' = "done"
          /\ UNCHANGED <<events, attempt, ContractAddressToNameMap, ContractStore>>
     ELSE \E d \in DeployResults :
            /\ args' = [auth |-> auth, name |-> name, tx |-> d.tx, address |-> d.address]
            /\ events' = <<"bind.DeployContract">>
            /\ IF d.err # NoErr
               THEN /\ ret' = [data |-> EmptyDeploymentData,
                               err |-> wrapErrInMessageWithASuggestion(d.err)]
                    /\ pc' = "done"
                    /\ UNCHANGED <<attempt, ContractAddressToNameMap, ContractStore>>
               ELSE /\ ContractAddressToNameMap' =
                         ContractAddressToNameMap \cup {[address |-> d.address, name |-> name]}
                    /\ ContractStore' = ContractStore \cup {name}
                    /\ attempt' = 1
                    /\ ret' = NoRet
                    /\ pc' = "deploy_wait"
  /\ UNCHANGED <<bootVars, callers, decodeErr, Cfg, Errors, Nonces, ctx, tick, poll, wmRet, revertErr, decoded, traceErr,
                 files, node>>

\* l. 1082-1085, 1116-1131: one attempt's wait for the deployed code; when the
\* code is there retry.Do returns nil and DeployContract returns the
\* deployment, after saving the address if the configuration asks for it
DeployWaitDeployed ==
  /\ pc = "deploy_wait"
  /\ \E w \in WaitDeployedResults(Cfg) :
       IF w = NoErr
       THEN \E save \in BOOLEAN, ok \in BOOLEAN :
              /\ ok => save
              /\ events' = IF save
                           THEN events \o <<"bind.WaitDeployed", "SaveDeployedContract">>
                           ELSE Append(events, "bind.WaitDeployed")
              /\ IF save
                 THEN WriteFile([path |-> "ContractMapFile", content |-> args.address], ok)
                 ELSE files' = files
              /\ ret' = [data |-> [Address |-> args.address, Transaction |-> args.tx,
                                   BoundContract |-> TRUE],
                         err |-> NoErr]
              /\ pc' = "done"
              /\ poll' = poll
       ELSE /\ poll' = [receipt |-> NilReceipt, err |-> w]
            /\ events' = Append(events, "bind.WaitDeployed")
            /\ pc' = "deploy_wait_mined"
            /\ UNCHANGED <<files, ret>>
  /\ UNCHANGED <<bootVars, callers, decodeErr, Cfg, Errors, Nonces, op, args, ctx, tick, wmRet, revertErr, decoded, traceErr,
                 node, deployVars>>

\* a retry condition that takes every error for a reason to retry
RetryIf_Always(err) == TRUE

\* l. 1105-1108: the error of an attempt is worth another attempt
RetryIf(err) ==
  ErrorContains(err, NoCodeAtAddressText) \/ ErrorContains(err, NoCodeAfterDeploymentText)

\* l. 1088-1098: what the attempt returns after a failed wait, once the
\* deployment transaction is mined
AttemptError(waitErr, receipt) ==
  IF receipt.status = 0
  THEN ErrorsNew("deployment transaction was reverted", "DeployContract")
  ELSE waitErr

\* l. 1088-1112: after a failed wait the attempt waits, without a deadline,
\* for the deployment transaction to be mined; its error leads to another
\* attempt or ends retry.Do, and DeployContract then calls Decode(tx, nil)
DeployWaitMined ==
  /\ pc = "deploy_wait_mined"
  /\ \E r \in Receipts :
       LET err == AttemptError(poll.err, r)
       IN IF RetryIf(err) /\ attempt < DeployAttempts
          THEN /\ attempt' = attempt + 1
               /\ events' = Append(events, "bind.WaitMined")
               /\ poll' = [poll EXCEPT !.receipt = r]
               /\ pc' = "deploy_wait"
               /\ UNCHANGED <<node, ctx, tick, wmRet, ret>>
          ELSE /\ attempt' = attempt
               /\ node' = [retryErr |-> err]
               /\ LET e == DecodeEarlyReturn(Errors, args.tx, NoErr)
                  IN IF e.returns
                     THEN /\ ret' = [decoded |-> e.decoded, err |-> e.err]
                          /\ events' = Append(events, "bind.WaitMined")
                          /\ pc' = DecodeReturnsTo(op)
                          /\ UNCHANGED <<ctx, tick, poll, wmRet>>
                     ELSE /\ ret' = ret
                          /\ events' = events \o <<"bind.WaitMined", "WaitMined">>
                          /\ WaitMinedEnter(Background)
  /\ UNCHANGED <<bootVars, callers, decodeErr, Cfg, Errors, Nonces, op, args, revertErr, decoded, traceErr, files,
                 ContractAddressToNameMap, ContractStore>>

\* l. 1113: the failed deployment's error is returned, not Decode's
DeployContractFailed ==
  /\ pc = "deploy_failed"
  /\ ret' = [data |-> EmptyDeploymentData,
             err |-> wrapErrInMessageWithASuggestion(node.retryErr)]
  /\ pc' = "done"
  /\ UNCHANGED <<bootVars, callers, decodeErr, Cfg, Errors, Nonces, op, args, ctx, tick, poll, wmRet, revertErr, decoded,
                 traceErr, events, files, node, deployVars>>

(***************************************************************************)
(* NewClientRaw (l. 208-381): the RPC health check (l. 294-302, 384-401)   *)
(* and the funding of the ephemeral addresses (l. 314-339).  The caller's  *)
(* thread runs NewClientRaw; eg.Go starts one goroutine per funding        *)
(* transfer, and each goroutine runs TransferETHFromKey and WaitMined.     *)
(***************************************************************************)
\* the largest number of ephemeral addresses a client is constructed with
MaxEphemeralAddrs == 2

ErrRpcHealthCheckFailed == "RPC health check failed"

\* the variables of the caller's thread, and the client's fields other than
\* the nonces
threadVars == <<op, pc, args, ctx, tick, poll, wmRet, revertErr, decoded, traceErr, events,
                files, ret, node, attempt, decodeErr>>
clientVars == <<Cfg, Errors, ContractAddressToNameMap, ContractStore>>

\* what NewClientRaw is called with: the health check setting, whether a
\* nonce manager is passed, and the number of ephemeral addresses, which are
\* loaded after the root key; ephemeral mode is set up by NewClientWithConfig,
\* which always passes a nonce manager (l. 106, 142)
NewClientRawInputs ==
  {i \in [CheckRpcHealthOnStart : BOOLEAN, NonceManager : BOOLEAN,
          EphemeralAddrs : 0..MaxEphemeralAddrs] :
     i.EphemeralAddrs > 0 => i.NonceManager}

\* cfg.ephemeral, as setEphemeralAddrs leaves it
IsEphemeral(in) == in.EphemeralAddrs > 0

\* the health check was not made, or was made with this result
NoHealthCheck == [made |-> FALSE, err |-> NoErr]
HealthCheck(err) == [made |-> TRUE, err |-> err]

\* NewClientRaw has returned (c, err); c is whether the client is not nil
Returned(con, c, err) == [con EXCEPT !.pc = "returned", !.c = c, !.err = err]

\* l. 294-298: the health check is made
HealthCheckDue(in) == in.CheckRpcHealthOnStart /\ in.NonceManager

\* l. 208-303: the call of NewClientRaw, up to the health check; the dial,
\* the chain ID, the contract map or the nonce refresh can fail
NewClientRawCall(in) ==
  /\ construction = NoConstruction
  /\ pc = "idle"
  /\ \E connected \in BOOLEAN :
       LET con == [pc |-> IF HealthCheckDue(in) THEN "health" ELSE "funding",
                   in |-> in, health |-> NoHealthCheck, tracer |-> FALSE,
                   cfg |-> Cfg, eip1559 |-> TRUE,
                   fees |-> [dyn |-> NoQuery, leg |-> NoQuery], c |-> FALSE, err |-> NoErr]
       IN construction' =
            IF connected THEN con
            ELSE Returned(con, FALSE,
                          ErrorsWrap(RpcErr("connection refused"), "failed to get chain ID"))
  /\ UNCHANGED <<threadVars, clientVars, Nonces, eg, tasks, callers>>

\* l. 384-393: checkRPCHealth transfers from key 0 to key 0's own address
\* under a context bounded by TxnTimeout
checkRPCHealth ==
  /\ construction # NoConstruction
  /\ construction.pc = "health"
  /\ TransferETHFromKey(0, WithTimeout(Background, Cfg.TxnTimeout))

\* a health check whose failure is ignored
HealthCheckError_Ignored(err) == NoErr

\* l. 394-396: the error checkRPCHealth returns after the transfer
HealthCheckError(err) == ErrorsWrap(err, ErrRpcHealthCheckFailed)

\* l. 299-301, 394-400: the transfer has returned; its error, wrapped, ends
\* the construction
checkRPCHealthReturn ==
  /\ construction # NoConstruction
  /\ construction.pc = "health"
  /\ pc = "done"
  /\ op = "TransferETHFromKey"
  /\ LET err == HealthCheckError(ret.err)
         con == [construction EXCEPT !.health = HealthCheck(ret.err)]
     IN construction' = IF err # NoErr THEN Returned(con, FALSE, err)
                        ELSE [con EXCEPT !.pc = "funding"]
  /\ pc' = "idle"
  /\ op' = "none"
  /\ args' = NoArgs
  /\ ret' = NoRet
  /\ ResetLocals
  /\ UNCHANGED <<clientVars, Nonces, eg, tasks, callers>>

\* the goroutine eg.Go starts for the address at index to (l. 330-335)
NewTask(to) ==
  [pc |-> "start", fromKeyNum |-> 0, to |-> to, nonce |-> NilInt, ctx |-> Background,
   tick |-> FALSE, err |-> NoErr]

\* errgroup.WithContext(ctx), l. 328: no error yet, egCtx live
NewGroup == [err |-> NoErr, cancelled |-> FALSE]

\* egCtx
GroupCtx(g) ==
  [err |-> IF g.cancelled THEN "canceled" ELSE "none", timed |-> FALSE, left |-> 0,
   cancellable |-> TRUE]

\* l. 314-328: outside ephemeral mode there is nothing to fund; in it the
\* funding is computed, which can fail, and the group is made
FundStart ==
  /\ construction # NoConstruction
  /\ construction.pc = "funding"
  /\ IF ~IsEphemeral(construction.in)
     THEN /\ construction' = [construction EXCEPT !.pc = "finishing"]
          /\ eg' = eg
     ELSE \E funded \in BOOLEAN :
            IF funded
            THEN /\ construction' = [construction EXCEPT !.pc = "launching"]
                 /\ eg' = NewGroup
            ELSE /\ construction' = Returned(construction, FALSE,
                                             Errorf("insufficient funds on the root key"))
                 /\ eg' = eg
  /\ UNCHANGED <<threadVars, clientVars, Nonces, tasks, callers>>

\* a loop that also starts a transfer to the root address
FundTargets_WithRoot(in) == 0..in.EphemeralAddrs

\* l. 330: c.Addresses[1:], the indexes of the addresses after the root
FundTargets(in) == 1..in.EphemeralAddrs

\* l. 330-335: eg.Go starts the goroutine of the next address
FundLaunch ==
  /\ construction # NoConstruction
  /\ construction.pc = "launching"
  /\ \E to \in FundTargets(construction.in) :
       /\ \A i \in 1..Len(tasks) : tasks[i].to # to
       /\ \A other \in FundTargets(construction.in) :
            other < to => \E i \in 1..Len(tasks) : tasks[i].to = other
       /\ tasks' = Append(tasks, NewTask(to))
  /\ UNCHANGED <<threadVars, clientVars, Nonces, construction, eg, callers>>

\* the goroutine's context as it is now: done when its deadline has passed,
\* or when egCtx, its parent, is cancelled
TaskCtx(t) ==
  LET c == tasks[t].ctx
  IN IF c.err = "none" /\ c.cancellable /\ eg.cancelled
     THEN [c EXCEPT !.err = "canceled"]
     ELSE c

\* the goroutine's function returns err: errgroup keeps the first error
\* that is not nil and cancels egCtx with it
TaskReturns(t, err) ==
  /\ tasks' = [tasks EXCEPT ![t].pc = "done", ![t].err = err]
  /\ eg' = IF err # NoErr /\ eg.err = NoErr
           THEN [err |-> err, cancelled |-> TRUE]
           ELSE eg

\* l. 531-548: the key check passes for key 0, the network ID is read under
\* context.Background(), and a failed gas estimate falls back to the
\* configured gas
TaskStart(t) ==
  /\ tasks[t].pc = "start"
  /\ ~FromKeyNumRejected(tasks[t].fromKeyNum)
  /\ \E networkOk \in BOOLEAN :
       IF networkOk
       THEN /\ tasks' = [tasks EXCEPT ![t].pc = "nonce"]
            /\ eg' = eg
       ELSE TaskReturns(t, ErrorsWrap(RpcErr("connection refused"),
                                      "failed to get network ID"))
  /\ UNCHANGED <<threadVars, clientVars, Nonces, construction, callers>>

\* l. 553-567: the next nonce of the sending key is taken, the transaction
\* is signed, and the goroutine's context is egCtx bounded by TxnTimeout
TaskNextNonce(t) ==
  /\ tasks[t].pc = "nonce"
  /\ LET n == NextNonce(Nonces, tasks[t].fromKeyNum)
     IN /\ Nonces' = n.nonces
        /\ \E signOk \in BOOLEAN :
             IF signOk
             THEN /\ tasks' = [tasks EXCEPT ![t].pc = "send",
                                            ![t].nonce = BigInt(n.nonce),
                                            ![t].ctx = WithTimeout(GroupCtx(eg),
                                                                   Cfg.TxnTimeout)]
                  /\ eg' = eg
             ELSE /\ tasks' = [tasks EXCEPT ![t].pc = "done",
                                            ![t].nonce = BigInt(n.nonce),
                                            ![t].err = ErrorsWrap(RpcErr("invalid key"),
                                                                  "failed to sign tx")]
                  /\ eg' = IF eg.err = NoErr
                           THEN [err |-> ErrorsWrap(RpcErr("invalid key"), "failed to sign tx"),
                                 cancelled |-> TRUE]
                           ELSE eg
  /\ UNCHANGED <<threadVars, clientVars, construction, callers>>

\* l. 568-571: SendTransaction under the goroutine's context; under a context
\* that is done it fails with the context's error
TaskSend(t) ==
  /\ tasks[t].pc = "send"
  /\ LET c == TaskCtx(t)
     IN IF c.err # "none"
        THEN TaskReturns(t, ErrorsWrap(CtxErr(c), "failed to send transaction"))
        ELSE \E sendOk \in BOOLEAN :
               IF sendOk
               THEN /\ tasks' = [tasks EXCEPT ![t].pc = "wm_query",
                                              ![t].ctx = WithTimeout(c, Cfg.TxnTimeout)]
                    /\ eg' = eg
               ELSE TaskReturns(t, ErrorsWrap(RpcErr("connection refused"),
                                              "failed to send transaction"))
  /\ UNCHANGED <<threadVars, clientVars, Nonces, construction, callers>>

\* l. 592-609 in the goroutine: one receipt query of WaitMined
TaskQuery(t) ==
  /\ tasks[t].pc = "wm_query"
  /\ \E r \in QueryResults(TaskCtx(t)) :
       LET out == PollOutcome(r)
       IN IF out.returns
          THEN TaskReturns(t, out.err)
          ELSE /\ tasks' = [tasks EXCEPT ![t].pc = "wm_select"]
               /\ eg' = eg
  /\ UNCHANGED <<threadVars, clientVars, Nonces, construction, callers>>

\* l. 611-613 in the goroutine: the select takes the Done case
TaskSelectDone(t) ==
  /\ tasks[t].pc = "wm_select"
  /\ DoneReady(TaskCtx(t))
  /\ TaskReturns(t, CtxErr(TaskCtx(t)))
  /\ UNCHANGED <<threadVars, clientVars, Nonces, construction, callers>>

\* l. 614-616 in the goroutine: the select takes the ticker case
TaskSelectTick(t) ==
  /\ tasks[t].pc = "wm_select"
  /\ TickReady(tasks[t].tick)
  /\ tasks' = [tasks EXCEPT ![t].pc = "wm_query", ![t].tick = FALSE]
  /\ UNCHANGED <<threadVars, clientVars, Nonces, construction, eg, callers>>

\* the goroutine's ticker of l. 587 fires
TaskTickerFires(t) ==
  /\ tasks[t].pc \in {"wm_query", "wm_select"}
  /\ ~tasks[t].tick
  /\ tasks' = [tasks EXCEPT ![t].tick = TRUE]
  /\ UNCHANGED <<threadVars, clientVars, Nonces, construction, eg, callers>>

\* the goroutine holds a context whose deadline is still to come
Timed(t) ==
  /\ tasks[t].pc \in {"send", "wm_query", "wm_select"}
  /\ TaskCtx(t).err = "none"
  /\ tasks[t].ctx.timed
  /\ tasks[t].ctx.left > 0

\* one clock unit passes for every goroutine
FundTimePasses ==
  /\ \E t \in 1..Len(tasks) : Timed(t)
  /\ tasks' = [t \in 1..Len(tasks) |->
                 IF Timed(t)
                 THEN [tasks[t] EXCEPT !.ctx.left = @ - 1,
                                       !.ctx.err = IF tasks[t].ctx.left = 1 THEN "deadline"
                                                   ELSE "none"]
                 ELSE tasks[t]]
  /\ UNCHANGED <<threadVars, clientVars, Nonces, construction, eg, callers>>

\* a wait that returns as soon as one goroutine has finished
AllFinished_AnyOne(ts) == \E t \in 1..Len(ts) : ts[t].pc = "done"

\* eg.Wait(), l. 336: every goroutine the group started has returned
AllFinished(ts) == \A t \in 1..Len(ts) : ts[t].pc = "done"

\* l. 336-338: eg.Wait() returns the group's error once every goroutine has
\* returned, and an error ends the construction
FundWait ==
  /\ construction # NoConstruction
  /\ construction.pc = "launching"
  /\ \A to \in FundTargets(construction.in) : \E i \in 1..Len(tasks) : tasks[i].to = to
  /\ AllFinished(tasks)
  /\ eg' = [eg EXCEPT !.cancelled = TRUE]
  /\ construction' = IF eg.err # NoErr THEN Returned(construction, FALSE, eg.err)
                     ELSE [construction EXCEPT !.pc = "finishing"]
  /\ UNCHANGED <<threadVars, clientVars, Nonces, tasks, callers>>

\* a construction that makes no tracer of its own
TracerHeld_OnlyGiven(level, given) == given

\* l. 341-358: the client holds a tracer after this block when one was
\* passed as an option, or when the tracing level asked for one to be made
TracerHeld(level, given) == given \/ level # TracingLevel_None

\* l. 364, 369: the construction asks the node for dynamic fees once
SupportCheckDue(cfg) == cfg.GasPriceEstimationEnabled /\ cfg.EIP1559DynamicFees

\* l. 371-377: the request of that call
SupportCheckRequest(cfg) ==
  [NewDefaultGasEstimationRequest(cfg) EXCEPT !.GasEstimationEnabled = TRUE]

\* what a node that supports the dynamic-fee methods (eip1559), or one that
\* does not, can answer to the fee queries: the first never rejects the
\* method; the second rejects it, unless the query is not made or does not
\* reach the node
NodeCanAnswer(eip1559, f) ==
  IF eip1559 THEN ~ErrorContains(f.dyn.err, EIP1559UnsupportedText)
  ELSE \/ f.dyn = NoQuery
       \/ ErrorContains(f.dyn.err, EIP1559UnsupportedText)
       \/ f.dyn.err = RpcErr("connection refused")

\* l. 341-380: the contract store and the tracer are made when tracing is
\* on, which can fail; on a client that estimates dynamic fees
\* CalculateGasEstimations is called once and its estimations are dropped;
\* the client is returned. The record keeps the configuration the block of
\* l. 364 started from, the kind of node, and the node's answers.
FinishConstruction ==
  /\ construction # NoConstruction
  /\ construction.pc = "finishing"
  /\ \E built \in BOOLEAN :
       /\ (Cfg.TracingLevel = TracingLevel_None) => built
       /\ IF built
          THEN \E eip1559 \in BOOLEAN,
                  f \in IF SupportCheckDue(Cfg) THEN FeeAnswers(Cfg, TRUE)
                        ELSE {[dyn |-> NoQuery, leg |-> NoQuery]} :
                 /\ NodeCanAnswer(eip1559, f)
                 /\ construction' =
                      [Returned(construction, TRUE, NoErr) EXCEPT
                         !.tracer = TracerHeld(Cfg.TracingLevel, construction.tracer),
                         !.cfg = Cfg,
                         !.eip1559 = eip1559,
                         !.fees = f]
                 /\ Cfg' = IF SupportCheckDue(Cfg)
                           THEN CalculateGasEstimations(Cfg, SupportCheckRequest(Cfg),
                                                        f.dyn, f.leg).cfg
                           ELSE Cfg
          ELSE /\ construction' =
                    Returned(construction, FALSE,
                             ErrorsWrap(RpcErr("connection refused"), "failed to create tracer"))
               /\ Cfg' = Cfg
  /\ UNCHANGED <<threadVars, Errors, ContractAddressToNameMap, ContractStore, Nonces, eg,
                 tasks, callers>>

\* NewClientRaw has returned a client
ClientHeld ==
  construction # NoConstruction /\ construction.pc = "returned" /\ construction.c

\* calls on the client NewClientRaw returned
ClientDecode(tx, txErr) == ClientHeld /\ DecodeCall(tx, txErr)
ClientNewTXKeyOpts(keyNum, o) ==
  /\ ClientHeld
  /\ NewTXKeyOpts(keyNum, o)
  /\ node' # NoAnswers => NodeCanAnswer(construction.eip1559, node')

(***************************************************************************)
(* Two goroutines prepare transaction options on one client (l. 774-809,   *)
(* 848-905).  m.Errors = append(m.Errors, err) reads the slice and writes  *)
(* the result back; nothing in the client orders the two accesses of one   *)
(* goroutine against those of another, so the read and the write are       *)
(* separate steps.                                                         *)
(***************************************************************************)
\* the key indexes a concurrent caller passes: a loaded key, or an index
\* that l. 775 rejects
CallerKeys == {k \in (-1)..(NumKeys + 1) : k \in 0..(NumKeys - 1) \/ KeyNumOutOfRange(k)}

\* a goroutine that calls NewTXKeyOpts(keyNum)
NewCaller(keyNum) == [keyNum |-> keyNum, pc |-> "call", pending |-> <<>>, seen |-> <<>>]

\* two goroutines with distinct keys start their calls
CallersStart ==
  /\ callers = <<>>
  /\ pc = "idle"
  /\ \E k1, k2 \in CallerKeys :
       /\ k1 < k2
       /\ callers' = <<NewCaller(k1), NewCaller(k2)>>
  /\ UNCHANGED <<threadVars, clientVars, Nonces, bootVars>>

\* the errors a failing call for keyNum is about to append: the range error
\* of l. 781, the nonce read error of l. 851, the pending nonce error of
\* l. 870 or the signer error of l. 891
FailingCalls(cfg, keyNum) ==
  IF KeyNumOutOfRange(keyNum)
  THEN {<<ErrorsNew("keyNum is out of range", "NewTXKeyOpts")>>}
  ELSE {p.appended :
          p \in {getProposedTransactionOptions(cfg, keyNum, a.read, a.dyn, a.leg,
                                               a.transactorFails) :
                   a \in ProposalAnswers(cfg)}} \ {<<>>}

\* l. 775-781, 849-850, 865-869: the call of goroutine i fails
CallerFails(i) ==
  /\ callers[i].pc = "call"
  /\ \E appended \in FailingCalls(Cfg, callers[i].keyNum) :
       /\ Len(appended) = 1
       /\ callers' = [callers EXCEPT ![i].pc = "load", ![i].pending = appended]
  /\ UNCHANGED <<threadVars, clientVars, Nonces, bootVars>>

\* l. 782, 851, 870: goroutine i reads m.Errors
CallerLoad(i) ==
  /\ callers[i].pc = "load"
  /\ callers' = [callers EXCEPT ![i].pc = "store", ![i].seen = Errors]
  /\ UNCHANGED <<threadVars, clientVars, Nonces, bootVars>>

\* l. 782, 851, 870: goroutine i writes the appended slice to m.Errors
CallerStore(i) ==
  /\ callers[i].pc = "store"
  /\ Errors' = AppendErrors(callers[i].seen, callers[i].pending)
  /\ callers' = [callers EXCEPT ![i].pc = "done"]
  /\ UNCHANGED <<threadVars, Cfg, ContractAddressToNameMap, ContractStore, Nonces, bootVars>>

\* both goroutines have returned
CallersDone == callers # <<>> /\ \A i \in 1..Len(callers) : callers[i].pc = "done"

\* l. 408-432: the next Decode, called after both goroutines have returned
DecodeAfterCallers(tx, txErr) == CallersDone /\ DecodeCall(tx, txErr)

(***************************************************************************)
(* Two goroutines price transaction options on one client (l. 796-798).    *)
(* getProposedTransactionOptions reads and writes Cfg.EIP1559DynamicFees   *)
(* inside CalculateGasEstimations (l. 960, 974), and                       *)
(* configureTransactionOpts reads it again (l. 1015); nothing orders the   *)
(* accesses of one goroutine against those of the other, so another        *)
(* goroutine's step can fall between the two calls.                        *)
(***************************************************************************)
\* a goroutine that calls NewTXKeyOpts(keyNum) without options
NewOptsCaller(keyNum) ==
  [keyNum |-> keyNum, pc |-> "propose", proposal |-> NoRet, ret |-> NoRet]

\* two goroutines with distinct loaded keys start their calls
OptsCallersStart ==
  /\ callers = <<>>
  /\ pc = "idle"
  /\ \E k1, k2 \in 0..(NumKeys - 1) :
       /\ k1 < k2
       /\ callers' = <<NewOptsCaller(k1), NewOptsCaller(k2)>>
  /\ UNCHANGED <<threadVars, clientVars, Nonces, bootVars>>

\* l. 796: getProposedTransactionOptions of goroutine i; the calls that
\* fail are those of the goroutines that append errors
OptsCallerProposes(i) ==
  /\ callers[i].pc = "propose"
  /\ \E a \in ProposalAnswers(Cfg) :
       LET p == getProposedTransactionOptions(Cfg, callers[i].keyNum, a.read, a.dyn, a.leg,
                                              a.transactorFails)
       IN /\ p.appended = <<>>
          /\ Cfg' = p.cfg
          /\ callers' = [callers EXCEPT ![i].pc = "configure", ![i].proposal = p]
  /\ UNCHANGED <<threadVars, Errors, ContractAddressToNameMap, ContractStore, Nonces, bootVars>>

\* l. 798: configureTransactionOpts of goroutine i, under the configuration
\* as it is now
OptsCallerConfigures(i) ==
  /\ callers[i].pc = "configure"
  /\ LET p == callers[i].proposal
     IN callers' = [callers EXCEPT
                      ![i].pc = "done",
                      ![i].ret = configureTransactionOpts(Cfg, p.opts, p.nonceStatus.PendingNonce,
                                                          p.estimations, <<>>)]
  /\ UNCHANGED <<threadVars, clientVars, Nonces, bootVars>>

(***************************************************************************)
(* decodeContractLogs (l. 1187-1214).                                      *)
(***************************************************************************)
ErrDecodeLog == "failed to decode log"

\* the event signatures of the ABIs, and the hash that identifies each
EventSigs == {"Transfer(address,address,uint256)", "Approval(address,address,uint256)"}
EventID(sig) ==
  IF sig = "Transfer(address,address,uint256)" THEN "0xddf252ad" ELSE "0x8c5be1e5"

\* abi.ABI.Events: a map of events, visited in no particular order
ABIs == SUBSET EventSigs

\* lo.Topics of a log: none (an anonymous event), or a first topic that is
\* the hash of an event of the ABIs or of an event they do not know
TopicLists == {<<>>, <<"0xddf252ad">>, <<"0x8c5be1e5">>, <<"0x17307eab">>}

\* []types.Log of a receipt: Index is the log's position in the block
RECURSIVE LogLists(_)
LogLists(n) ==
  IF n = 0 THEN {<<>>}
  ELSE LogLists(n - 1) \cup
       {Append(ls, [Topics |-> t, Index |-> Len(ls)]) :
          ls \in {x \in LogLists(n - 1) : Len(x) = n - 1}, t \in TopicLists}

\* l. 1192: evSpec.ID.Hex() == lo.Topics[0].Hex()
TopicMatches(sig, lo) == EventID(sig) = lo.Topics[1]

\* l. 1193-1201: the record of a log that matched evSpec, with the log's
\* metadata merged in (l. 1217-1229)
DecodedLog(sig, lo) == [Signature |-> sig, Topics |-> lo.Topics, Index |-> lo.Index]

\* l. 1190-1213: the loop over the logs and, for each, over the events of
\* the ABI; undecodable holds the events decodeEventFromLog fails on
RECURSIVE decodeContractLogs(_, _, _)
decodeContractLogs(logs, a, undecodable) ==
  IF logs = <<>> THEN [events |-> <<>>, err |-> NoErr, panics |-> FALSE]
  ELSE LET lo == Head(logs)
       IN IF a # {} /\ lo.Topics = <<>>
          THEN \* l. 1192: lo.Topics[0] is an index out of range
               [events |-> <<>>, err |-> NoErr, panics |-> TRUE]
          ELSE LET matched == {sig \in a : TopicMatches(sig, lo)}
               IN IF matched \cap undecodable # {}
                  THEN [events |-> <<>>,
                        err |-> ErrorsWrap(RpcErr("abi: cannot unpack"), ErrDecodeLog),
                        panics |-> FALSE]
                  ELSE LET rest == decodeContractLogs(Tail(logs), a, undecodable)
                           here == IF matched = {} THEN <<>>
                                   ELSE <<DecodedLog(CHOOSE sig \in matched : TRUE, lo)>>
                       IN IF rest.panics \/ rest.err # NoErr THEN rest
                          ELSE [rest EXCEPT !.events = here \o rest.events]

\* a call of decodeContractLogs(l, logs, a)
decodeContractLogsCall(logs, a, undecodable) ==
  /\ pc = "idle"
  /\ op' = "decodeContractLogs"
  /\ args' = [logs |-> logs, a |-> a, undecodable |-> undecodable]
  /\ LET r == decodeContractLogs(logs, a, undecodable)
     IN IF r.panics
        THEN ret' = NoRet /\ pc' = "panic"
        ELSE ret' = [events |-> r.events, err |-> r.err] /\ pc' = "done"
  /\ UNCHANGED <<bootVars, callers, decodeErr, node, deployVars, Cfg, Errors, Nonces, ctx,
                 tick, poll, wmRet, revertErr, decoded, traceErr, events, files>>

(***************************************************************************)
(* ValidateConfig (l. 149-205) and NewClientWithConfig (l. 70-76).  The    *)
(* two settings whose case is normalised are Go strings, written here as   *)
(* sequences of one-letter strings.                                        *)
(***************************************************************************)
LowerLetters ==
  <<"a", "b", "c", "d", "e", "f", "g", "h", "i", "j", "k", "l", "m",
    "n", "o", "p", "q", "r", "s", "t", "u", "v", "w", "x", "y", "z">>
UpperLetters ==
  <<"A", "B", "C", "D", "E", "F", "G", "H", "I", "J", "K", "L", "M",
    "N", "O", "P", "Q", "R", "S", "T", "U", "V", "W", "X", "Y", "Z">>

\* the place of a letter in an alphabet, 0 when it is not one of its letters
LetterAt(letters, ch) ==
  IF \E i \in 1..Len(letters) : letters[i] = ch
  THEN CHOOSE i \in 1..Len(letters) : letters[i] = ch
  ELSE 0

\* strings.ToUpper(s) and strings.ToLower(s): what is not a letter is kept
ToUpper(s) ==
  [i \in 1..Len(s) |->
     LET k == LetterAt(LowerLetters, s[i]) IN IF k > 0 THEN UpperLetters[k] ELSE s[i]]

ToLower(s) ==
  [i \in 1..Len(s) |->
     LET k == LetterAt(UpperLetters, s[i]) IN IF k > 0 THEN LowerLetters[k] ELSE s[i]]

\* the letters of the tracing levels (l. 44-46) and of the priorities
Spelling ==
  [NONE |-> <<"N", "O", "N", "E">>, REVERTED |-> <<"R", "E", "V", "E", "R", "T", "E", "D">>, ALL |-> <<"A", "L", "L">>,
   degen |-> <<"d", "e", "g", "e", "n">>, fast |-> <<"f", "a", "s", "t">>, standard |-> <<"s", "t", "a", "n", "d", "a", "r", "d">>, slow |-> <<"s", "l", "o", "w">>]

Priority_Degen == Spelling.degen
Priority_Fast == Spelling.fast
Priority_Standard == Spelling.standard
Priority_Slow == Spelling.slow
Priorities == {Priority_Degen, Priority_Fast, Priority_Standard, Priority_Slow}

SpelledTracingLevels == {Spelling[l] : l \in TracingLevels}

KeyFileSourceFile == "file"
KeyFileSourceBase64EnvVar == "base64_env"

\* the settings ValidateConfig is called with: levels and priorities unset,
\* in the canonical case, in another case, and not among the known ones
RawTracingLevels ==
  {<<>>, Spelling.NONE, Spelling.REVERTED, Spelling.ALL, <<"n", "o", "n", "e">>, <<"R", "e", "v", "e", "r", "t", "e", "d">>, <<"a", "L", "L">>,
   <<"V", "E", "R", "B", "O", "S", "E">>}

RawPriorities ==
  {<<>>, Spelling.degen, Spelling.fast, Spelling.standard, Spelling.slow, <<"F", "a", "s", "t">>, <<"S", "L", "O", "W">>,
   <<"u", "r", "g", "e", "n", "t">>}

RawConfigs ==
  [TracingLevel : RawTracingLevels,
   GasPriceEstimationEnabled : BOOLEAN,
   GasPriceEstimationBlocks : {0, 1},
   GasPriceEstimationTxPriority : RawPriorities,
   KeyFileSource : {"", KeyFileSourceFile, "vault"},
   KeyFilePath : {"", "keys.toml"},
   EphemeralAddrs : {NilInt, BigInt(1)}]

\* a default that leaves an unset tracing level unset
DefaultTracingLevel_Unset(level) == level

\* l. 173-175: an unset tracing level is REVERTED
DefaultTracingLevel(level) == IF level = <<>> THEN Spelling[TracingLevel_Reverted] ELSE level

\* l. 155-159: the priority in lower case, standard when unset
NormalisedPriority(priority) ==
  LET p == ToLower(priority) IN IF p = <<>> THEN Priority_Standard ELSE p

\* l. 150-169: the check of the gas estimation settings, made when estimation
\* is enabled; the priority is written back before it is checked
ValidateGasEstimation(cfg) ==
  IF ~cfg.GasPriceEstimationEnabled THEN [cfg |-> cfg, err |-> NoErr]
  ELSE IF cfg.GasPriceEstimationBlocks = 0
  THEN [cfg |-> cfg, err |-> ErrorsNew("blocks must be greater than 0", "ValidateConfig")]
  ELSE LET c == [cfg EXCEPT !.GasPriceEstimationTxPriority = NormalisedPriority(@)]
       IN IF c.GasPriceEstimationTxPriority \in Priorities
          THEN [cfg |-> c, err |-> NoErr]
          ELSE [cfg |-> c,
                err |-> ErrorsNew("priority must be fast, standard or slow", "ValidateConfig")]

\* l. 190-202: the checks of the key file settings
ValidateKeyFile(cfg) ==
  IF cfg.KeyFileSource # "" /\ cfg.EphemeralAddrs # NilInt /\ cfg.EphemeralAddrs # BigInt(0)
  THEN Errorf("KeyFileSource is set and ephemeral addresses are enabled")
  ELSE IF cfg.KeyFileSource \notin {"", KeyFileSourceFile, KeyFileSourceBase64EnvVar}
  THEN Errorf("KeyFileSource must be either empty (disabled) or one of")
  ELSE IF cfg.KeyFileSource = KeyFileSourceFile /\ cfg.KeyFilePath = ""
  THEN Errorf("KeyFileSource is set to 'file' but the path to the key file is not set")
  ELSE NoErr

\* l. 149-205: the error returned, and the configuration as the call leaves
\* it (cfg is a pointer: what is written before an error stays written)
ValidateConfig(cfg) ==
  LET g == ValidateGasEstimation(cfg)
  IN IF g.err # NoErr THEN g
     ELSE LET c == [g.cfg EXCEPT !.TracingLevel = ToUpper(DefaultTracingLevel(@))]
          IN IF c.TracingLevel \notin SpelledTracingLevels
             THEN [cfg |-> c,
                   err |-> ErrorsNew("tracing level must be one of: NONE, REVERTED, ALL",
                                     "ValidateConfig")]
             ELSE [cfg |-> c, err |-> ValidateKeyFile(c)]

\* a call of ValidateConfig(cfg)
ValidateConfigCall(cfg) ==
  /\ pc = "idle"
  /\ op' = "ValidateConfig"
  /\ args' = [cfg |-> cfg]
  /\ ret' = ValidateConfig(cfg)
  /\ pc' = "done"
  /\ UNCHANGED <<bootVars, callers, decodeErr, node, deployVars, Cfg, Errors, Nonces, ctx,
                 tick, poll, wmRet, revertErr, decoded, traceErr, events, files>>

\* l. 70-146: NewClientWithConfig(cfg) returns no client and ValidateConfig's
\* error; after a valid configuration the rest of the construction gives a
\* client or fails
NewClientWithConfig(cfg) ==
  /\ pc = "idle"
  /\ op' = "NewClientWithConfig"
  /\ args' = [cfg |-> cfg]
  /\ LET v == ValidateConfig(cfg)
     IN IF v.err # NoErr
        THEN ret' = [cfg |-> v.cfg, c |-> FALSE, err |-> v.err]
        ELSE \E built \in BOOLEAN :
               ret' = [cfg |-> v.cfg, c |-> built,
                       err |-> IF built THEN NoErr
                               ELSE ErrorsWrap(RpcErr("connection refused"),
                                               "failed to create tracer")]
  /\ pc' = "done"
  /\ UNCHANGED <<bootVars, callers, decodeErr, node, deployVars, Cfg, Errors, Nonces, ctx,
                 tick, poll, wmRet, revertErr, decoded, traceErr, events, files>>

(***************************************************************************)
(* The client after construction, and the specifications.                  *)
(***************************************************************************)
\* the configurations a client is constructed with (ValidateConfig, l. 149-205,
\* leaves one of the three tracing levels)
Configs ==
  [TracingLevel : TracingLevels, TraceToJson : BOOLEAN, TxnTimeout : 0..MaxTimeout,
   PendingNonceProtectionEnabled : BOOLEAN, EIP1559DynamicFees : BOOLEAN,
   GasPriceEstimationEnabled : BOOLEAN, Simulated : BOOLEAN]

\* the configurations of the clients whose Decode and WaitMined calls are
\* followed: static gas pricing, so that preparing options makes no fee query
DecodeConfigs ==
  {c \in Configs : ~c.GasPriceEstimationEnabled /\ ~c.Simulated /\ ~c.EIP1559DynamicFees}

Init ==
  /\ Cfg \in DecodeConfigs
  /\ Errors = <<>>
  /\ Nonces = [k \in 0..(NumKeys - 1) |-> 0]
  /\ op = "none"
  /\ pc = "idle"
  /\ args = NoArgs
  /\ ctx = Background
  /\ tick = FALSE
  /\ poll = NoWmRet
  /\ wmRet = NoWmRet
  /\ revertErr = NoErr
  /\ decoded = NilDecoded
  /\ traceErr = NoErr
  /\ events = <<>>
  /\ files = {}
  /\ ret = NoRet
  /\ node = NoAnswers
  /\ attempt = 0
  /\ ContractAddressToNameMap = {}
  /\ ContractStore = {}
  /\ decodeErr = NoErr
  /\ construction = NoConstruction
  /\ eg = NoGroup
  /\ tasks = <<>>
  /\ callers = <<>>

KeyNums == (-1)..(NumKeys + 1)

Next ==
  \/ \E tx \in Txs \cup {NilTx}, txErr \in TxErrs \cup {NoErr} : DecodeCall(tx, txErr)
  \/ WMQuery
  \/ WMSelectDone
  \/ WMSelectTick
  \/ TickerFires
  \/ TimePasses
  \/ DecodeClassify
  \/ DecodeTransaction
  \/ DecodeTrace
  \/ \E keyNum \in KeyNums, o \in TransactOpts : NewTXKeyOpts(keyNum, o)
  \/ Finish

Spec == Init /\ [][Next]_vars

\* the client in the state NewClientRaw leaves it in, for a configuration
\* among cfgs
Constructed(cfgs) ==
  /\ Cfg \in cfgs
  /\ Errors = <<>>
  /\ Nonces = [k \in 0..(NumKeys - 1) |-> 0]
  /\ op = "none"
  /\ pc = "idle"
  /\ args = NoArgs
  /\ ctx = Background
  /\ tick = FALSE
  /\ poll = NoWmRet
  /\ wmRet = NoWmRet
  /\ revertErr = NoErr
  /\ decoded = NilDecoded
  /\ traceErr = NoErr
  /\ events = <<>>
  /\ files = {}
  /\ ret = NoRet
  /\ node = NoAnswers
  /\ attempt = 0
  /\ ContractAddressToNameMap = {}
  /\ ContractStore = {}
  /\ decodeErr = NoErr
  /\ construction = NoConstruction
  /\ eg = NoGroup
  /\ tasks = <<>>
  /\ callers = <<>>

\* the configurations of the clients whose option and pricing calls are
\* followed: every pricing setting, with the settings those calls never read
\* (tracing, the transaction timeout) fixed
OptsConfigs ==
  {c \in Configs : /\ c.TracingLevel = TracingLevel_None
                   /\ ~c.TraceToJson
                   /\ c.TxnTimeout = MaxTimeout}

InitOpts == Constructed(OptsConfigs)

\* the clients constructed with gas price estimation enabled: on these,
\* estimation is off only after a suggestion of zero has turned it off
PricingConfigs == {c \in OptsConfigs : c.GasPriceEstimationEnabled}

InitPricing == Constructed(PricingConfigs)

\* the preparation of transaction options and the pricing of transactions
NextOpts ==
  \/ \E keyNum \in KeyNums, o \in TransactOpts : NewTXKeyOpts(keyNum, o)
  \/ \E o \in TransactOpts : NewTXOpts(o)
  \/ \E request \in GasEstimationRequests(Cfg) : CalculateGasEstimationsCall(request)
  \/ Finish

OptsSpec == InitOpts /\ [][NextOpts]_vars

PricingSpec == InitPricing /\ [][NextOpts]_vars

\* the configurations of the clients whose deployments are followed: static
\* gas pricing and no trace files
DeployConfigs == {c \in DecodeConfigs : ~c.TraceToJson /\ ~c.PendingNonceProtectionEnabled}

InitDeploy == Constructed(DeployConfigs)

\* deployments, between calls that prepare options for a key index
NextDeploy ==
  \/ \E auth \in DeployAuths, name \in ContractNames : DeployContractCall(auth, name)
  \/ DeployWaitDeployed
  \/ DeployWaitMined
  \/ DeployContractFailed
  \/ WMQuery
  \/ WMSelectDone
  \/ WMSelectTick
  \/ TickerFires
  \/ TimePasses
  \/ DecodeClassify
  \/ DecodeTransaction
  \/ DecodeTrace
  \/ \E keyNum \in {-1, 0} : NewTXKeyOpts(keyNum, <<>>)
  \/ Finish

DeploySpec == InitDeploy /\ [][NextDeploy]_vars

\* the configurations a client is constructed with and then used under:
\* every tracing level and every pricing setting
ClientConfigs ==
  {c \in Configs : /\ ~c.TraceToJson
                   /\ ~c.PendingNonceProtectionEnabled
                   /\ c.TxnTimeout = MaxTimeout}

InitClient == Constructed(ClientConfigs)

\* a construction without health check and without ephemeral addresses,
\* and then calls of Decode and NewTXKeyOpts on the client it returned
NextClient ==
  \/ \E in \in {i \in NewClientRawInputs :
                   ~i.CheckRpcHealthOnStart /\ ~IsEphemeral(i)} : NewClientRawCall(in)
  \/ FundStart
  \/ FinishConstruction
  \/ \E tx \in Txs \cup {NilTx}, txErr \in TxErrs \cup {NoErr} : ClientDecode(tx, txErr)
  \/ \E keyNum \in 0..(NumKeys - 1), o \in TransactOpts : ClientNewTXKeyOpts(keyNum, o)
  \/ WMQuery
  \/ WMSelectDone
  \/ WMSelectTick
  \/ TickerFires
  \/ TimePasses
  \/ DecodeClassify
  \/ DecodeTransaction
  \/ DecodeTrace
  \/ Finish

ClientSpec == InitClient /\ [][NextClient]_vars

\* two concurrent calls of NewTXKeyOpts with distinct keys on a client that
\* estimates gas prices
NextOptsRace ==
  \/ OptsCallersStart
  \/ \E i \in 1..Len(callers) : OptsCallerProposes(i)
  \/ \E i \in 1..Len(callers) : OptsCallerConfigures(i)

OptsRaceSpec == InitPricing /\ [][NextOptsRace]_vars

\* calls of decodeContractLogs with the logs of a receipt and an ABI
InitLogs ==
  Constructed({c \in DeployConfigs : c.TracingLevel = TracingLevel_All
                                      /\ c.TxnTimeout = MaxTimeout})

NextLogs ==
  \/ \E logs \in LogLists(MaxLogs), a \in ABIs, undecodable \in SUBSET EventSigs :
       decodeContractLogsCall(logs, a, undecodable)
  \/ Finish

LogsSpec == InitLogs /\ [][NextLogs]_vars

\* calls of ValidateConfig and NewClientWithConfig with raw configurations
InitConfig ==
  Constructed({c \in DeployConfigs : c.TracingLevel = TracingLevel_None
                                      /\ c.TxnTimeout = MaxTimeout})

NextConfig ==
  \/ \E cfg \in RawConfigs : ValidateConfigCall(cfg)
  \/ \E cfg \in RawConfigs : NewClientWithConfig(cfg)
  \/ Finish

ConfigSpec == InitConfig /\ [][NextConfig]_vars

\* the configurations of the clients whose construction is followed: static
\* gas pricing (so that l. 364-378 makes no fee query), no trace files
BootConfigs ==
  {c \in DeployConfigs : c.TracingLevel # TracingLevel_All /\ c.TxnTimeout > 0}

\* no client yet: NewClientRaw is about to be called with a configuration
InitBoot == Constructed(BootConfigs)

\* one construction: the caller's thread, the goroutines of the funding
\* transfers, the clock and the tickers
NextBoot ==
  \/ \E in \in NewClientRawInputs : NewClientRawCall(in)
  \/ checkRPCHealth
  \/ WMQuery
  \/ WMSelectDone
  \/ WMSelectTick
  \/ TickerFires
  \/ TimePasses
  \/ TransferReturn
  \/ checkRPCHealthReturn
  \/ FundStart
  \/ FundLaunch
  \/ \E t \in 1..Len(tasks) : TaskStart(t)
  \/ \E t \in 1..Len(tasks) : TaskNextNonce(t)
  \/ \E t \in 1..Len(tasks) : TaskSend(t)
  \/ \E t \in 1..Len(tasks) : TaskQuery(t)
  \/ \E t \in 1..Len(tasks) : TaskSelectDone(t)
  \/ \E t \in 1..Len(tasks) : TaskSelectTick(t)
  \/ \E t \in 1..Len(tasks) : TaskTickerFires(t)
  \/ FundTimePasses
  \/ FundWait
  \/ FinishConstruction

BootSpec == InitBoot /\ [][NextBoot]_vars

\* the steps of goroutine t that wait for nothing but the goroutine's turn
\* or an answer of the node
TaskProgress(t) ==
  /\ t \in 1..Len(tasks)
  /\ (TaskStart(t) \/ TaskNextNonce(t) \/ TaskSend(t) \/ TaskQuery(t))

\* the ticker of goroutine t
TaskTicker(t) == t \in 1..Len(tasks) /\ TaskTickerFires(t)

\* the Done case of the select of goroutine t
TaskDone(t) == t \in 1..Len(tasks) /\ TaskSelectDone(t)

\* the funding fan-out under the scheduling the code can count on: the loop
\* and eg.Wait() take their steps, every goroutine is scheduled, the node
\* answers every request, the clock advances, the tickers fire, and a select
\* takes a case that is ready again and again
BootLiveSpec ==
  /\ InitBoot
  /\ [][NextBoot]_vars
  /\ WF_vars(FundLaunch)
  /\ WF_vars(FundWait)
  /\ WF_vars(FundTimePasses)
  /\ \A t \in 1..MaxEphemeralAddrs :
       WF_vars(TaskProgress(t)) /\ WF_vars(TaskTicker(t)) /\ SF_vars(TaskDone(t))

\* the configurations of the clients on which two goroutines prepare
\* options: static gas pricing, so that the calls leave the configuration
\* alone
RaceConfigs == {c \in DeployConfigs : c.TxnTimeout = MaxTimeout} \cup
               {c \in DecodeConfigs : ~c.TraceToJson /\ c.TxnTimeout = MaxTimeout}

InitRace == Constructed(RaceConfigs)

\* two concurrent calls of NewTXKeyOpts with distinct keys, then a Decode
NextRace ==
  \/ CallersStart
  \/ \E i \in 1..Len(callers) : CallerFails(i)
  \/ \E i \in 1..Len(callers) : CallerLoad(i)
  \/ \E i \in 1..Len(callers) : CallerStore(i)
  \/ \E tx \in Txs \cup {NilTx}, txErr \in TxErrs \cup {NoErr} : DecodeAfterCallers(tx, txErr)
  \/ Finish

RaceSpec == InitRace /\ [][NextRace]_vars

\* deployments under the scheduling the code can count on: the clock
\* advances, the ticker fires, every call that is bounded by a context or
\* involves no wait returns, and a select takes a case that is ready again
\* and again.  bind.WaitMined at l. 1089 runs under context.Background(): it
\* returns when the node has a receipt, which nothing obliges the node to
\* have, so DeployWaitMined is under no such condition
DeployLiveSpec ==
  /\ InitDeploy
  /\ [][NextDeploy]_vars
  /\ WF_vars(TimePasses)
  /\ WF_vars(TickerFires)
  /\ WF_vars(WMQuery)
  /\ SF_vars(WMSelectDone)
  /\ WF_vars(DeployWaitDeployed)
  /\ WF_vars(DeployContractFailed)
  /\ WF_vars(DecodeClassify)
  /\ WF_vars(DecodeTransaction)
  /\ WF_vars(DecodeTrace)

\* the two callers of WaitMined, Decode and TransferETHFromKey, under the
\* clock, the ticker and the cancellation of the caller's context
NextWait ==
  \/ \E tx \in Txs \cup {NilTx}, txErr \in TxErrs \cup {NoErr} : DecodeCall(tx, txErr)
  \/ \E fromKeyNum \in KeyNums, parent \in TransferCtxs :
       TransferETHFromKey(fromKeyNum, parent)
  \/ WMQuery
  \/ WMSelectDone
  \/ WMSelectTick
  \/ TickerFires
  \/ TimePasses
  \/ CancelCtx
  \/ DecodeClassify
  \/ DecodeTransaction
  \/ DecodeTrace
  \/ TransferReturn
  \/ Finish

\* the client after construction, with the two settings WaitMined and its
\* callers never read left off: trace files and the pending-nonce protection
InitWait ==
  /\ Init
  /\ ~Cfg.TraceToJson
  /\ ~Cfg.PendingNonceProtectionEnabled

\* the clock advances and the ticker fires; a receipt query returns, bounded
\* by its context; the Go runtime's select takes a ready case at random, so a
\* case that is ready again and again is taken in the end
WaitSpec ==
  /\ InitWait
  /\ [][NextWait]_vars
  /\ WF_vars(TimePasses)
  /\ WF_vars(TickerFires)
  /\ WF_vars(WMQuery)
  /\ SF_vars(WMSelectDone)


(***************************************************************************)
(* The claims.                                                             *)
(***************************************************************************)
\* the number of times the call has invoked Tracer.TraceGethTX
TraceCalls(ev) == Cardinality({i \in 1..Len(ev) : ev[i] = "TraceGethTX"})

\* C1: while the client holds accumulated errors, a Decode call returns at
\* once a nil record and the join of all accumulated errors, whatever tx and
\* txErr are, and has made no collaborator call and written no file.
C1_AccumulatedErrorsFailFast ==
  (op = "Decode" /\ Len(Errors) > 0) =>
    /\ pc = "done"
    /\ ret = [decoded |-> NilDecoded, err |-> [kind |-> "join", errs |-> Errors]]
    /\ events = <<>>
    /\ files = {}

\* C1, reached: Decode of a real transaction with no submission error has
\* returned the join of two accumulated errors.
C1_Witness ==
  /\ op = "Decode"
  /\ pc = "done"
  /\ args.tx \in Txs
  /\ args.txErr = NoErr
  /\ Len(Errors) = 2
  /\ ret.err.kind = "join"
  /\ Len(ret.err.errs) = 2

\* C2: a Decode call that has obtained a receipt returns having invoked the
\* Tracer exactly once if the tracing level at its gate is ALL, or REVERTED
\* with a receipt of status zero, and not at all otherwise.
C2_TraceGating ==
  [][(op = "Decode" /\ pc \in {"decode", "trace"} /\ pc' = "done") =>
       TraceCalls(events') =
         IF \/ Cfg.TracingLevel = TracingLevel_All
            \/ (Cfg.TracingLevel = TracingLevel_Reverted /\ wmRet.receipt.status = 0)
         THEN 1 ELSE 0]_vars

\* C2, reached: a reverted transaction traced once at level REVERTED.
C2_Witness ==
  /\ op = "Decode"
  /\ pc = "done"
  /\ Cfg.TracingLevel = TracingLevel_Reverted
  /\ wmRet.receipt = [status |-> 0]
  /\ TraceCalls(events) = 1

\* C3: Decode of a mined transaction whose receipt has status zero returns a
\* record and a revert error together, at every tracing level and whether the
\* trace succeeded or failed.
C3_RevertReturnsRecordAndError ==
  (op = "Decode" /\ pc = "done" /\ wmRet.receipt = [status |-> 0]) =>
    /\ ret.decoded # NilDecoded
    /\ ret.decoded.hash = args.tx.hash
    /\ ret.err # NoErr

\* C3, reached: a reverted transaction whose trace failed.
C3_Witness ==
  /\ op = "Decode"
  /\ pc = "done"
  /\ wmRet.receipt = [status |-> 0]
  /\ TraceCalls(events) = 1
  /\ traceErr # NoErr
  /\ ret.decoded # NilDecoded
  /\ ret.err # NoErr

\* C4: once Decode has a receipt, the error it returns is the revert error:
\* nil when the status is not zero, the replayed revert reason when it is, and
\* never the error of a decoding, a trace or a file write.
C4_OnlyRevertErrorReturned ==
  (op = "Decode" /\ pc = "done" /\ wmRet.receipt \in Receipts) =>
    /\ wmRet.receipt.status # 0 => ret.err = NoErr
    /\ wmRet.receipt.status = 0 => ret.err = revertErr /\ ret.err \in RevertReasons

\* C4, reached: a successful transaction whose decoding, trace and file write
\* all failed, returned with a nil error.
C4_Witness ==
  /\ op = "Decode"
  /\ pc = "done"
  /\ wmRet.receipt = [status |-> 1]
  /\ ~ret.decoded.complete
  /\ traceErr # NoErr
  /\ \E i \in 1..Len(events) : events[i] = "saveAsJson"
  /\ files = {}
  /\ ret.err = NoErr

\* C5: a trace that fails because the node has no debug API sets the tracing
\* level to NONE, and the call still returns its record and revert error; the
\* level NONE is never left, and no step at level NONE invokes the Tracer.
C5_TracingDowngradeIsPermanent ==
  [][/\ Cfg.TracingLevel = TracingLevel_None =>
          /\ Cfg'.TracingLevel = TracingLevel_None
          /\ TraceCalls(events') <= TraceCalls(events)
     /\ (pc = "trace" /\ ErrorContains(traceErr', DebugApiMissingText)) =>
          /\ Cfg'.TracingLevel = TracingLevel_None
          /\ pc' = "done"
          /\ ret'.decoded = decoded
          /\ ret'.decoded # NilDecoded
          /\ ret'.err = revertErr]_vars

\* C5, reached: the call that met the missing debug API has returned its
\* record and its revert error, and the level is NONE.
C5_Witness ==
  /\ op = "Decode"
  /\ pc = "done"
  /\ ErrorContains(traceErr, DebugApiMissingText)
  /\ Cfg.TracingLevel = TracingLevel_None
  /\ ret.decoded # NilDecoded
  /\ revertErr # NoErr
  /\ ret.err = revertErr

\* C6: with no accumulated errors, Decode called with a submission error
\* returns at once a nil record and that error, wrapped with the reason when a
\* custom revert reason can be decoded from it and as it is otherwise, and has
\* made no collaborator call, also when tx is not nil.
C6_SubmissionFailed ==
  (op = "Decode" /\ Len(Errors) = 0 /\ args.txErr # NoErr) =>
    /\ pc = "done"
    /\ ret.decoded = NilDecoded
    /\ ret.err # NoErr
    /\ ret.err = IF args.txErr.data # ""
                 THEN [kind |-> "wrap", msg |-> args.txErr.data, cause |-> args.txErr]
                 ELSE args.txErr
    /\ events = <<>>
    /\ files = {}

\* C6, reached: a submission error with the custom reason InsufficientBalance,
\* passed with a transaction that is not nil, came back wrapped with the reason.
C6_Witness ==
  /\ op = "Decode"
  /\ pc = "done"
  /\ args.tx \in Txs
  /\ args.txErr # NoErr
  /\ args.txErr.data = "InsufficientBalance"
  /\ ret.decoded = NilDecoded
  /\ ret.err.kind = "wrap"
  /\ ret.err.msg = "InsufficientBalance"

\* C7 as written: Decode(nil, nil) returns (nil, nil), with no receipt
\* polling, tracing or file write.
C7_DecodeNilNil_AsWritten ==
  (op = "Decode" /\ args.tx = NilTx /\ args.txErr = NoErr) =>
    /\ pc = "done"
    /\ ret = [decoded |-> NilDecoded, err |-> NoErr]
    /\ events = <<>>
    /\ files = {}

\* C7: on a client that holds no accumulated errors, Decode(nil, nil) returns
\* (nil, nil), with no receipt polling, tracing or file write.
C7_DecodeNilNil ==
  (op = "Decode" /\ Len(Errors) = 0 /\ args.tx = NilTx /\ args.txErr = NoErr) =>
    /\ pc = "done"
    /\ ret = [decoded |-> NilDecoded, err |-> NoErr]
    /\ events = <<>>
    /\ files = {}

\* C7, reached: Decode(nil, nil) has returned (nil, nil).
C7_Witness ==
  /\ op = "Decode"
  /\ pc = "done"
  /\ args.tx = NilTx
  /\ args.txErr = NoErr
  /\ Len(Errors) = 0
  /\ ret = [decoded |-> NilDecoded, err |-> NoErr]

\* C8: when WaitMined ends without a receipt, Decode returns a nil record and
\* WaitMined's error after that one wait: no second wait, no replay, no
\* decoding, no trace, no file.
C8_TimeoutIsTerminal ==
  (op = "Decode" /\ pc = "done" /\ Len(events) > 0 /\ wmRet.receipt = NilReceipt) =>
    /\ ret.decoded = NilDecoded
    /\ ret.err # NoErr
    /\ ret.err = [kind |-> "ctx", msg |-> "context deadline exceeded"]
    /\ events = <<"WaitMined">>
    /\ revertErr = NoErr
    /\ decoded = NilDecoded
    /\ files = {}

\* C8, reached: a positive transaction timeout has elapsed without a receipt
\* and Decode has returned the deadline error.
C8_Witness ==
  /\ op = "Decode"
  /\ pc = "done"
  /\ Cfg.TxnTimeout > 0
  /\ events = <<"WaitMined">>
  /\ ctx.err = "deadline"
  /\ ret = [decoded |-> NilDecoded, err |-> [kind |-> "ctx", msg |-> "context deadline exceeded"]]

\* C9: when the context is cancelled while WaitMined is blocked in its
\* select, the next step of WaitMined is its return of (nil, ctx.Err()), also
\* when the ticker has fired: no further receipt query is made.
C9_CancelStopsPoller ==
  [][(pc = "wm_select" /\ ctx.err = "canceled" /\ pc' # pc) =>
       /\ pc' = "after_wait"
       /\ wmRet' = [receipt |-> NilReceipt, err |-> [kind |-> "ctx", msg |-> "context canceled"]]]_vars

\* C10: every WaitMined call returns: the receipt with a nil error as soon as
\* a query succeeds, and otherwise the error of its context, which the
\* transaction timeout ends, whatever the queries answered before.
C10_WaitMinedTerminates ==
  /\ [](pc = "after_wait" =>
          \/ (wmRet.err = NoErr /\ wmRet.receipt \in Receipts)
          \/ (wmRet.receipt = NilReceipt /\ ctx.err # "none" /\ wmRet.err = CtxErr(ctx)))
  /\ [][(pc = "wm_query" /\ pc' # pc /\ poll'.err = NoErr) =>
          (pc' = "after_wait" /\ wmRet' = poll')]_vars
  /\ (InWaitMined ~> pc = "after_wait")

\* C10, reached: a transfer's wait has ended with the deadline error after
\* "not found" and other errors from the node.
C10_Witness ==
  /\ op = "TransferETHFromKey"
  /\ pc = "after_wait"
  /\ Cfg.TxnTimeout > 0
  /\ poll.err # NoErr
  /\ wmRet = [receipt |-> NilReceipt, err |-> [kind |-> "ctx", msg |-> "context deadline exceeded"]]

\* C11 as written: a receipt query that fails with an RPC error other than
\* "not found" ends WaitMined, which returns that error to its caller; the
\* query is not made again.
C11_RpcErrorSurfaced_AsWritten ==
  [][(pc = "wm_query" /\ pc' # pc /\ poll'.err # NoErr /\ poll'.err # NotFound) =>
       (pc' = "after_wait" /\ wmRet'.err = poll'.err)]_vars

\* C11: a receipt query that fails with an RPC error other than "not found"
\* does not end WaitMined: the loop goes on to its select and queries again
\* on the next tick, and what WaitMined returns in the end is a receipt with
\* a nil error or the error of its context, never the error of a query that
\* the context did not cause.
C11_RpcErrorIsRetried ==
  [][/\ (pc = "wm_query" /\ pc' # pc /\ poll'.err # NoErr) =>
          (pc' = "wm_select" /\ wmRet' = wmRet)
     /\ (pc = "wm_select" /\ pc' # pc /\ ctx.err = "none") =>
          (pc' = "wm_query" /\ ctx' = ctx)
     /\ pc' = "after_wait" =>
          \/ (wmRet'.err = NoErr /\ wmRet'.receipt \in Receipts)
          \/ (wmRet'.err # NoErr /\ wmRet'.err = CtxErr(ctx'))]_vars

\* C11, reached: the last query failed with "connection refused", and what
\* Decode got from WaitMined is the deadline error.
C11_Witness ==
  /\ op = "Decode"
  /\ pc = "after_wait"
  /\ poll.err = RpcErr("connection refused")
  /\ wmRet = [receipt |-> NilReceipt, err |-> [kind |-> "ctx", msg |-> "context deadline exceeded"]]

\* the call of NewTXKeyOpts or NewTXOpts that this step makes has returned
OptsCallReturns == pc = "idle" /\ op' \in {"NewTXKeyOpts", "NewTXOpts"} /\ pc' = "done"

\* C12: when the node reports a pending nonce above the confirmed nonce of a
\* loaded key, NewTXKeyOpts with the pending-nonce protection on returns
\* options with a signer and the pending nonce whose context carries an
\* error, and appends that error to Client.Errors; with the protection off
\* the options carry no error and Client.Errors is left as it was.
C12_PendingNonceProtection ==
  [][(/\ OptsCallReturns
      /\ op' = "NewTXKeyOpts"
      /\ args'.keyNum \in 0..(NumKeys - 1)
      /\ node'.read.err = NoErr
      /\ node'.read.PendingNonce > node'.read.LastNonce
      /\ ~node'.transactorFails) =>
       /\ ret'.Signer
       /\ ret'.Nonce = BigInt(node'.read.PendingNonce)
       /\ Cfg.PendingNonceProtectionEnabled =>
            /\ ret'.ContextErr # NoErr
            /\ Errors' = Append(Errors, ret'.ContextErr)
       /\ ~Cfg.PendingNonceProtectionEnabled =>
            /\ ret'.ContextErr = NoErr
            /\ Errors' = Errors]_vars

\* C12, reached: with the protection on, pending nonce 2 and confirmed nonce
\* 0, the options returned have a signer, nonce 2 and a context error, which
\* is the last accumulated error.
C12_Witness ==
  /\ op = "NewTXKeyOpts"
  /\ pc = "done"
  /\ Cfg.PendingNonceProtectionEnabled
  /\ node # NoAnswers
  /\ node.read.err = NoErr
  /\ node.read.PendingNonce = 2
  /\ node.read.LastNonce = 0
  /\ ret.Signer
  /\ ret.Nonce = BigInt(2)
  /\ ret.ContextErr # NoErr
  /\ Len(Errors) > 0
  /\ Errors[Len(Errors)] = ret.ContextErr

\* C13: for every integer keyNum, NewTXKeyOpts returns options and does not
\* crash; when keyNum is not the index of a loaded key, the options carry a
\* context error, and that error is the last of Client.Errors.
C13_AnyKeyNumIsSafe ==
  op = "NewTXKeyOpts" =>
    /\ pc # "panic"
    /\ (pc = "done" /\ args.keyNum \notin 0..(NumKeys - 1)) =>
         /\ ret.ContextErr # NoErr
         /\ Len(Errors) > 0
         /\ Errors[Len(Errors)] = ret.ContextErr

\* C14: the options a call of NewTXOpts or NewTXKeyOpts returns carry a
\* context error exactly when the call has appended to Client.Errors, and
\* the error carried is the last one appended; every failure (invalid key
\* index, failed nonce read, pending-nonce gap, failed signer creation)
\* does both, and a call without failure leaves Client.Errors as it was.
C14_PoisonedIffAppended ==
  [][OptsCallReturns =>
       LET failed ==
             \/ node' = NoAnswers
             \/ node'.read.err # NoErr
             \/ node'.transactorFails
             \/ /\ Cfg.PendingNonceProtectionEnabled
                /\ node'.read.PendingNonce > node'.read.LastNonce
       IN /\ (ret'.ContextErr # NoErr) <=> (Errors' # Errors)
          /\ (ret'.ContextErr # NoErr) <=> failed
          /\ Len(Errors') >= Len(Errors)
          /\ SubSeq(Errors', 1, Len(Errors)) = Errors
          /\ Errors' # Errors => ret'.ContextErr = Errors'[Len(Errors')]]_vars

\* C14, reached: with the protection on, a pending-nonce gap and then a
\* failed signer creation appended two errors in one call of NewTXOpts, and
\* the options carry the second.
C14_Witness ==
  /\ op = "NewTXOpts"
  /\ pc = "done"
  /\ node.transactorFails
  /\ node.read.PendingNonce > node.read.LastNonce
  /\ Cfg.PendingNonceProtectionEnabled
  /\ Len(Errors) = 2
  /\ Errors[1] = Errorf("pending nonce is higher than last nonce")
  /\ ret.ContextErr = Errors[2]
  /\ ret.ContextErr # Errors[1]
  /\ ~ret.Signer

\* C15: Client.Errors only grows: every step keeps the errors it held, in
\* place; so from the first failed preparation of options on, every Decode
\* call returns a nil record and an error, whatever transaction it is given.
C15_ErrorsAppendOnly ==
  [][/\ Len(Errors') >= Len(Errors)
     /\ SubSeq(Errors', 1, Len(Errors)) = Errors
     /\ (Len(Errors) > 0 /\ pc = "idle" /\ op' = "Decode") =>
          /\ pc' = "done"
          /\ ret'.decoded = NilDecoded
          /\ ret'.err # NoErr]_vars

\* C15, reached: one preparation of options has failed at some time before,
\* and Decode of a transaction that was submitted without error has returned
\* that failure.
C15_Witness ==
  /\ op = "Decode"
  /\ pc = "done"
  /\ Len(Errors) = 1
  /\ args.tx # NilTx
  /\ args.txErr = NoErr
  /\ ret.decoded = NilDecoded
  /\ ret.err = ErrorsJoin(Errors)

\* C16: DeployContract called with options whose context carries an error
\* returns at once an empty DeploymentData and an error that wraps the one
\* carried, before anything is submitted, and leaves the contract address
\* map and the ABI store as they were.
C16_PoisonedDeployAborts ==
  [][(pc = "idle" /\ op' = "DeployContract" /\ args'.auth.ContextErr # NoErr) =>
       /\ pc' = "done"
       /\ ret'.data = EmptyDeploymentData
       /\ ret'.err # NoErr
       /\ ret'.err.kind = "wrap"
       /\ ret'.err.cause = args'.auth.ContextErr
       /\ events' = <<>>
       /\ ContractAddressToNameMap' = ContractAddressToNameMap
       /\ ContractStore' = ContractStore
       /\ files' = files]_vars

\* C16, reached: on a client that has deployed a contract before,
\* DeployContract with options poisoned by an invalid key index has returned
\* the wrapped error and no deployment.
C16_Witness ==
  /\ op = "DeployContract"
  /\ pc = "done"
  /\ args.auth.ContextErr = ErrorsNew("keyNum is out of range", "NewTXKeyOpts")
  /\ ret.data = EmptyDeploymentData
  /\ ret.err = ErrorsWrap(args.auth.ContextErr, "aborted contract deployment")
  /\ events = <<>>
  /\ ContractAddressToNameMap # {}
  /\ ContractStore # {}

\* the call of CalculateGasEstimations that this step makes
EstimationCall == pc = "idle" /\ op' = "CalculateGasEstimations"

\* the three fallback values of a request, as estimations
Fallbacks(request) ==
  [GasPrice |-> request.FallbackGasPrice,
   GasFeeCap |-> request.FallbackGasFeeCap,
   GasTipCap |-> request.FallbackGasTipCap]

\* C17: on a simulated network, or for a request with estimation disabled,
\* CalculateGasEstimations returns exactly the three fallback values of the
\* request, makes no fee query and leaves the configuration as it was.
C17_StaticFallback ==
  [][(EstimationCall /\ (Cfg.Simulated \/ ~args'.request.GasEstimationEnabled)) =>
       /\ pc' = "done"
       /\ ret' = Fallbacks(args'.request)
       /\ events' = <<>>
       /\ Cfg' = Cfg]_vars

\* C17, reached: on a simulated network whose configuration has estimation
\* and dynamic fees on, a caller's request with estimation enabled got its
\* own fallback values and no query was made.
C17_Witness ==
  /\ op = "CalculateGasEstimations"
  /\ pc = "done"
  /\ Cfg.Simulated
  /\ Cfg.GasPriceEstimationEnabled
  /\ Cfg.EIP1559DynamicFees
  /\ args.request.GasEstimationEnabled
  /\ args.request.FallbackGasPrice = BigInt("request.FallbackGasPrice")
  /\ ret = Fallbacks(args.request)
  /\ events = <<>>

\* C18: a dynamic-fee query that fails because the node does not support
\* the method switches dynamic-fee mode off, and the same call returns a
\* legacy GasPrice, suggested or the fallback; dynamic-fee mode, once off,
\* is never on again, and no call makes a dynamic-fee query while it is off.
C18_DynamicFeeDowngrade ==
  [][/\ (/\ EstimationCall
         /\ node'.dyn.err # NoErr
         /\ ErrorContains(node'.dyn.err, EIP1559UnsupportedText)) =>
          /\ ~Cfg'.EIP1559DynamicFees
          /\ events' = <<"GetSuggestedEIP1559Fees", "GetSuggestedLegacyFees">>
          /\ ret'.GasPrice = IF node'.leg.err = NoErr
                             THEN BigInt("suggested GasPrice")
                             ELSE args'.request.FallbackGasPrice
     /\ ~Cfg.EIP1559DynamicFees =>
          /\ ~Cfg'.EIP1559DynamicFees
          /\ \A i \in 1..Len(events') : events'[i] # "GetSuggestedEIP1559Fees"]_vars

\* C18, reached: the legacy query of the downgrading call failed too, and
\* the call returned the fallback GasPrice with dynamic-fee mode off.
C18_Witness ==
  /\ op = "CalculateGasEstimations"
  /\ pc = "done"
  /\ node.dyn.err = RpcErr(EIP1559UnsupportedText)
  /\ node.leg.err = RpcErr("connection refused")
  /\ ~Cfg.EIP1559DynamicFees
  /\ Cfg.GasPriceEstimationEnabled
  /\ ret.GasPrice = args.request.FallbackGasPrice
  /\ ret.GasPrice # NilInt

\* a fee query of the call that has just returned failed with the text of a
\* zero suggestion
ZeroSuggested(n) ==
  \/ (n.dyn.err # NoErr /\ ErrorContains(n.dyn.err, ZeroGasSuggestedErr))
  \/ (n.leg.err # NoErr /\ ErrorContains(n.leg.err, ZeroGasSuggestedErr))

Unremarkable(answer) ==
  answer.err # NoErr =>
    /\ ~ErrorContains(answer.err, ZeroGasSuggestedErr)
    /\ ~IsEIP1559Unsupported(answer.err)

\* C20: a CalculateGasEstimations call always returns, and the mode in force
\* when it returns is priced: in dynamic-fee mode GasFeeCap and GasTipCap are
\* the suggested values, or the request's FallbackGasFeeCap and
\* FallbackGasTipCap when the query failed; in legacy mode (from the start or
\* after the downgrade) GasPrice is the suggested price, or the request's
\* FallbackGasPrice when the query failed.  When every failure of the call
\* names neither an unsupported method nor a zero suggestion, the
\* configuration is unchanged.
C20_AlwaysPriced ==
  [][(EstimationCall /\ ~EstimationSkipped(Cfg, args'.request)) =>
       LET request == args'.request
           dyn == node'.dyn
           leg == node'.leg
       IN /\ pc' = "done"
          /\ Cfg.EIP1559DynamicFees =>
               /\ dyn # NoQuery
               /\ dyn.err = NoErr =>
                    /\ ret'.GasFeeCap = BigInt("suggested GasFeeCap")
                    /\ ret'.GasTipCap = BigInt("suggested GasTipCap")
               /\ dyn.err # NoErr =>
                    /\ ret'.GasFeeCap = request.FallbackGasFeeCap
                    /\ ret'.GasTipCap = request.FallbackGasTipCap
          /\ ~Cfg'.EIP1559DynamicFees =>
               /\ leg # NoQuery
               /\ leg.err = NoErr => ret'.GasPrice = BigInt("suggested GasPrice")
               /\ leg.err # NoErr => ret'.GasPrice = request.FallbackGasPrice
          /\ IF Cfg'.EIP1559DynamicFees
             THEN ret'.GasFeeCap # NilInt /\ ret'.GasTipCap # NilInt
             ELSE ret'.GasPrice # NilInt
          /\ (Unremarkable(dyn) /\ Unremarkable(leg)) => Cfg' = Cfg]_vars

\* C20, reached: the dynamic-fee query was refused as unsupported and the
\* legacy query of the same call failed for another reason; the call returned
\* the request's fallback price in what is now legacy mode.
C20_Witness ==
  /\ op = "CalculateGasEstimations"
  /\ pc = "done"
  /\ node # NoAnswers
  /\ node.dyn # NoQuery /\ IsEIP1559Unsupported(node.dyn.err)
  /\ node.leg # NoQuery /\ node.leg.err # NoErr /\ Unremarkable(node.leg)
  /\ ~Cfg.EIP1559DynamicFees
  /\ Cfg.GasPriceEstimationEnabled
  /\ ret.GasPrice = args.request.FallbackGasPrice
  /\ ret.GasFeeCap = args.request.FallbackGasFeeCap

\* C26: when decodeTransaction fails because no matching ABI method is found,
\* Decode returns the partially decoded record and the revert error without
\* calling the Tracer, and with TraceToJson enabled it has called
\* CreateOrAppendToJsonArray with the transaction hash.
C26_NoABIMethodIsNotFatal ==
  (op = "Decode" /\ pc = "done" /\ ErrorContains(decodeErr, ErrNoABIMethod)) =>
    /\ ret = DecodeReturn(decoded, revertErr)
    /\ ret.decoded # NilDecoded
    /\ TraceCalls(events) = 0
    /\ Cfg.TraceToJson =>
         \E i \in 1..Len(events) : events[i] = "CreateOrAppendToJsonArray"

\* the number of times the call has invoked saveAsJson
SaveCalls(ev) == Cardinality({i \in 1..Len(ev) : ev[i] = "saveAsJson"})

\* C27: with TraceToJson disabled no Decode call has written a file, on any
\* path; with it enabled, a Decode call whose trace succeeded has called
\* saveAsJson once, for the decoded calls under the transaction's hash, and
\* has written no other file.
C27_FilesOnlyWithJsonExport ==
  /\ ~Cfg.TraceToJson => (files = {} /\ SaveCalls(events) = 0)
  /\ (op = "Decode" /\ pc = "done" /\ Cfg.TraceToJson
        /\ TraceCalls(events) = 1 /\ traceErr = NoErr) =>
       /\ SaveCalls(events) = 1
       /\ files \subseteq {[path |-> "traces/" \o args.tx.hash, content |-> "DecodedCalls"]}

\* C27, reached: with TraceToJson enabled a trace succeeded and the one file
\* of the decoded calls, keyed by the hash, is written.
C27_Witness ==
  /\ op = "Decode"
  /\ pc = "done"
  /\ Cfg.TraceToJson
  /\ TraceCalls(events) = 1
  /\ traceErr = NoErr
  /\ files = {[path |-> "traces/" \o args.tx.hash, content |-> "DecodedCalls"]}

\* the position of the first call of a collaborator among the calls made so
\* far, 0 when it has not been called, and the number of its calls
Position(ev, name) ==
  IF \E i \in 1..Len(ev) : ev[i] = name
  THEN CHOOSE i \in 1..Len(ev) : ev[i] = name /\ \A j \in 1..(i - 1) : ev[j] # name
  ELSE 0

Calls(ev, name) == Cardinality({i \in 1..Len(ev) : ev[i] = name})

\* C30: within one Decode call the steps come in one order: the receipt is
\* obtained by WaitMined, then the revert is replayed, then the transaction
\* is decoded, then it is traced, each at most once; the Tracer is invoked
\* only after a receipt was obtained and decoding was attempted, and the
\* replay is made exactly for a receipt of status zero.
C30_DecodeStepOrder ==
  op = "Decode" =>
    LET w == Position(events, "WaitMined")
        r == Position(events, "callAndGetRevertReason")
        d == Position(events, "decodeTransaction")
        t == Position(events, "TraceGethTX")
        mined == wmRet.err = NoErr /\ wmRet.receipt \in Receipts
    IN /\ \A name \in {"WaitMined", "callAndGetRevertReason", "decodeTransaction",
                       "TraceGethTX"} : Calls(events, name) <= 1
       /\ r > 0 => (w = 1 /\ r = 2 /\ mined /\ wmRet.receipt.status = 0)
       /\ d > 0 => (w = 1 /\ r < d /\ mined /\ (wmRet.receipt.status = 0 => r > 0))
       /\ t > 0 => (w = 1 /\ d > 0 /\ d < t /\ mined /\ decoded # NilDecoded)
       /\ (mined /\ wmRet.receipt.status # 0) => r = 0

\* C30, reached: a reverted transaction went through all four steps.
C30_Witness ==
  /\ op = "Decode"
  /\ pc = "done"
  /\ wmRet.receipt = [status |-> 0]
  /\ events = <<"WaitMined", "callAndGetRevertReason", "decodeTransaction", "TraceGethTX">>

\* C28: every receipt wait of the client ends within the transaction
\* timeout, so every DeployContract call returns, also when the deployment
\* transaction is never mined.
C28_DeployContractReturns ==
  (op = "DeployContract" /\ pc # "done") ~> (op = "DeployContract" /\ pc = "done")

\* a call of ValidateConfig, direct or through NewClientWithConfig, has returned
ValidateReturned == op \in {"ValidateConfig", "NewClientWithConfig"} /\ pc = "done"

\* the setting is unset or, whatever its case, one of the known values
KnownLevel(level) == level = <<>> \/ ToUpper(level) \in SpelledTracingLevels
KnownPriority(priority) == priority = <<>> \/ ToLower(priority) \in Priorities

\* C29 as written: after a successful ValidateConfig the tracing level is the
\* given one in upper case, REVERTED when unset, and one of NONE, REVERTED,
\* ALL, and the priority is the given one in lower case, standard when unset,
\* and one of degen, fast, standard, slow; any other level or priority makes
\* ValidateConfig, and so NewClientWithConfig, return an error.
C29_ConfigNormalised_AsWritten ==
  ValidateReturned =>
    LET in == args.cfg
        out == ret.cfg
    IN /\ ret.err = NoErr =>
            /\ out.TracingLevel = IF in.TracingLevel = <<>> THEN Spelling.REVERTED
                                  ELSE ToUpper(in.TracingLevel)
            /\ out.TracingLevel \in SpelledTracingLevels
            /\ out.GasPriceEstimationTxPriority =
                 IF in.GasPriceEstimationTxPriority = <<>> THEN Spelling.standard
                 ELSE ToLower(in.GasPriceEstimationTxPriority)
            /\ out.GasPriceEstimationTxPriority \in Priorities
       /\ (~KnownLevel(in.TracingLevel) \/ ~KnownPriority(in.GasPriceEstimationTxPriority)) =>
            ret.err # NoErr

\* C29: after a successful ValidateConfig the tracing level is the given one
\* in upper case, REVERTED when unset, and one of NONE, REVERTED, ALL; when
\* gas price estimation is enabled, the priority is the given one in lower
\* case, standard when unset, and one of degen, fast, standard, slow, and
\* when it is disabled the priority is left as given, unchecked.  Any other
\* level, and with estimation enabled any other priority, makes
\* ValidateConfig return an error and NewClientWithConfig return that error
\* and no client; an unset or differently cased setting is no cause of error.
C29_ConfigNormalised ==
  ValidateReturned =>
    LET in == args.cfg
        out == ret.cfg
        est == in.GasPriceEstimationEnabled
        rejected == \/ ~KnownLevel(in.TracingLevel)
                    \/ est /\ ~KnownPriority(in.GasPriceEstimationTxPriority)
        otherCause == \/ est /\ in.GasPriceEstimationBlocks = 0
                      \/ ValidateKeyFile(in) # NoErr
    IN /\ rejected => (ret.err # NoErr /\ (op = "NewClientWithConfig" => ~ret.c))
       /\ (op = "ValidateConfig" /\ ~rejected /\ ~otherCause) => ret.err = NoErr
       /\ ret.err = NoErr =>
            /\ out.TracingLevel = IF in.TracingLevel = <<>> THEN Spelling.REVERTED
                                  ELSE ToUpper(in.TracingLevel)
            /\ out.TracingLevel \in SpelledTracingLevels
            /\ est =>
                 /\ out.GasPriceEstimationTxPriority =
                      IF in.GasPriceEstimationTxPriority = <<>> THEN Spelling.standard
                      ELSE ToLower(in.GasPriceEstimationTxPriority)
                 /\ out.GasPriceEstimationTxPriority \in Priorities
            /\ ~est => out.GasPriceEstimationTxPriority = in.GasPriceEstimationTxPriority

\* C29, reached: with estimation enabled, an unset tracing level and the
\* priority "Fast" were accepted and left as REVERTED and fast.
C29_Witness ==
  /\ op = "ValidateConfig"
  /\ pc = "done"
  /\ args.cfg.GasPriceEstimationEnabled
  /\ args.cfg.TracingLevel = <<>>
  /\ args.cfg.GasPriceEstimationTxPriority = <<"F", "a", "s", "t">>
  /\ ret.err = NoErr
  /\ ret.cfg.TracingLevel = <<"R", "E", "V", "E", "R", "T", "E", "D">>
  /\ ret.cfg.GasPriceEstimationTxPriority = <<"f", "a", "s", "t">>

(***************************************************************************)
(* C25: with CheckRpcHealthOnStart enabled and a nonce manager present,    *)
(* construction makes one transfer from key 0 to key 0's own address, and  *)
(* it fails with an error containing ErrRpcHealthCheckFailed exactly when  *)
(* that transfer fails; with the check disabled (or without a nonce        *)
(* manager) the transfer is never made, no construction error contains     *)
(* ErrRpcHealthCheckFailed, and the construction goes on to its later      *)
(* steps.                                                                  *)
(***************************************************************************)
C25_HealthCheckDecidesConstruction ==
  construction # NoConstruction =>
    LET due == HealthCheckDue(construction.in)
        made == construction.health.made
        failed == made /\ construction.health.err # NoErr
    IN /\ (construction.pc = "health" /\ op = "TransferETHFromKey") =>
            (args.fromKeyNum = 0 /\ Nonces[0] <= 1)
       /\ made => due
       /\ ~due => construction.pc # "health"
       /\ (due /\ construction.pc \in {"funding", "launching", "finishing"}) =>
            (made /\ ~failed)
       /\ construction.pc = "returned" =>
            /\ ErrorContains(construction.err, ErrRpcHealthCheckFailed) <=> failed
            /\ failed => (~construction.c /\ construction.err # NoErr)
            /\ (due /\ construction.c) => (made /\ ~failed)

\* the health check's transfer has failed and the construction with it
C25_Witness ==
  /\ construction # NoConstruction
  /\ construction.pc = "returned"
  /\ construction.health.made
  /\ ErrorsIs(construction.health.err, [kind |-> "ctx", msg |-> "context deadline exceeded"])
  /\ ErrorContains(construction.err, ErrRpcHealthCheckFailed)

(***************************************************************************)
(* C21: in ephemeral mode the construction starts exactly one transfer     *)
(* goroutine per loaded address other than the root, each sending from     *)
(* key 0; NewClientRaw does not return before every started goroutine has  *)
(* returned; it returns a client only if every transfer succeeded, and a   *)
(* nil client with an error if at least one failed.                        *)
(***************************************************************************)
C21_FanOutAllOrNothing ==
  construction # NoConstruction =>
    LET n == construction.in.EphemeralAddrs
        launched == {tasks[i].to : i \in 1..Len(tasks)}
        waited == eg # NoGroup /\ construction.pc \in {"finishing", "returned"}
    IN /\ \A i \in 1..Len(tasks) : tasks[i].fromKeyNum = 0 /\ tasks[i].to \in 1..n
       /\ \A i, j \in 1..Len(tasks) : i # j => tasks[i].to # tasks[j].to
       /\ ~IsEphemeral(construction.in) => tasks = <<>>
       /\ waited => (launched = 1..n /\ \A i \in 1..Len(tasks) : tasks[i].pc = "done")
       /\ (IsEphemeral(construction.in) /\ construction.pc = "returned" /\ construction.c) =>
            (launched = 1..n /\ \A i \in 1..Len(tasks) : tasks[i].err = NoErr)
       /\ (construction.pc = "returned" /\ \E i \in 1..Len(tasks) : tasks[i].err # NoErr) =>
            (~construction.c /\ construction.err # NoErr)

\* the construction has returned after one transfer was mined and another
\* failed
C21_Witness ==
  /\ construction # NoConstruction
  /\ construction.pc = "returned"
  /\ ~construction.c
  /\ Len(tasks) = construction.in.EphemeralAddrs
  /\ \E i, j \in 1..Len(tasks) :
       /\ tasks[i].pc = "done" /\ tasks[i].err = NoErr
       /\ tasks[j].pc = "done" /\ tasks[j].err # NoErr

Canceled == [kind |-> "ctx", msg |-> "context canceled"]

FirstFailure ==
  /\ eg # NoGroup
  /\ eg.err = NoErr
  /\ eg'.err # NoErr
  => /\ eg'.cancelled
     /\ \A t \in 1..Len(tasks) : tasks[t].err = NoErr
     /\ \E t \in 1..Len(tasks) :
          tasks[t].pc # "done" /\ tasks'[t].pc = "done" /\ tasks'[t].err = eg'.err

GroupErrorKept ==
  (eg # NoGroup /\ eg.err # NoErr) => (eg'.err = eg.err /\ eg'.cancelled)

SiblingObservesCancellation ==
  \A t \in 1..Len(tasks) :
    (/\ eg # NoGroup
     /\ eg.err # NoErr
     /\ tasks[t].pc \in {"send", "wm_query", "wm_select"}
     /\ tasks[t].ctx.err = "none"
     /\ tasks'[t].pc = "done")
    => ErrorsIs(tasks'[t].err, Canceled)

C22_FirstFailureEndsFanOut ==
  /\ [][FirstFailure /\ GroupErrorKept /\ SiblingObservesCancellation]_vars
  /\ (eg # NoGroup /\ eg.err # NoErr)
       ~> (/\ eg # NoGroup
           /\ construction # NoConstruction
           /\ construction.pc = "returned"
           /\ ~construction.c
           /\ construction.err = eg.err
           /\ \A t \in 1..Len(tasks) : tasks[t].pc = "done")

\* the construction has failed with the first goroutine's error after a
\* sibling that was awaiting its receipt returned the cancellation error
C22_Witness ==
  /\ construction # NoConstruction
  /\ construction.pc = "returned"
  /\ eg # NoGroup
  /\ construction.err = eg.err
  /\ ~ErrorsIs(eg.err, Canceled)
  /\ \E t \in 1..Len(tasks) : tasks[t].err = Canceled

(***************************************************************************)
(* C24: when two goroutines with distinct keys fail to prepare transaction *)
(* options concurrently on one client, both errors are in Client.Errors    *)
(* once both have returned, whatever the interleaving of the two appends,  *)
(* and the next Decode returns the join of both.                           *)
(***************************************************************************)
C24_BothErrorsAccumulated ==
  CallersDone =>
    /\ Len(Errors) = Len(callers[1].pending) + Len(callers[2].pending)
    /\ \A i \in 1..Len(callers) : \E n \in 1..Len(Errors) : Errors[n] = callers[i].pending[1]
    /\ (op = "Decode" /\ pc = "done") =>
         ret.err = ErrorsJoin(callers[1].pending \o callers[2].pending)
            \/ ret.err = ErrorsJoin(callers[2].pending \o callers[1].pending)

(***************************************************************************)
(* C31: decodeContractLogs returns, for the logs in their input order, one *)
(* record per ABI event whose identifier is the log's first topic, and     *)
(* skips every log that matches no event of the ABI, a log without topics  *)
(* included, without an error and without crashing.                        *)
(***************************************************************************)
\* the logs of the call that match an event of the ABI, in input order
MatchingLogs ==
  SelectSeq(args.logs,
            LAMBDA lo : lo.Topics # <<>> /\ \E sig \in args.a : EventID(sig) = lo.Topics[1])

C31_UnmatchedLogsSkipped ==
  (op = "decodeContractLogs" /\ pc # "idle") =>
    /\ pc # "panic"
    /\ (pc = "done" /\ ret.err = NoErr) =>
         /\ Len(ret.events) = Len(MatchingLogs)
         /\ \A i \in 1..Len(ret.events) :
              /\ ret.events[i].Index = MatchingLogs[i].Index
              /\ EventID(ret.events[i].Signature) = MatchingLogs[i].Topics[1]
    /\ (pc = "done" /\ ret.err # NoErr) =>
         \E i \in 1..Len(MatchingLogs) :
           \E sig \in args.undecodable : EventID(sig) = MatchingLogs[i].Topics[1]

\* the call of NewTXKeyOpts or NewTXOpts that this step makes reached
\* configureTransactionOpts with a nonce read from the node and a signer
OptsConfigured ==
  /\ OptsCallReturns
  /\ node' # NoAnswers
  /\ node'.read.err = NoErr
  /\ ~node'.transactorFails

\* C32: the options a caller passes to NewTXOpts or NewTXKeyOpts are applied
\* last and replace the computed values; without them the options carry the
\* node's pending nonce of the key and the configured gas limit, and, in the
\* fee mode the client is in when the call returns, GasFeeCap and GasTipCap
\* with a nil GasPrice (dynamic fees) or the estimated GasPrice (legacy).
C32_OverridesAppliedLast ==
  [][OptsConfigured =>
       LET o == args'.o
       IN /\ ret'.Nonce = BigInt(node'.read.PendingNonce)
          /\ ret'.GasLimit = "Cfg.GasLimit"
          /\ \A i \in 1..Len(o) :
               (\A j \in (i + 1)..Len(o) : o[j].field # o[i].field) =>
                 ret'[o[i].field] = o[i].value
          /\ (o = <<>> /\ Cfg'.EIP1559DynamicFees) =>
               /\ ret'.GasPrice = NilInt
               /\ ret'.GasFeeCap # NilInt
               /\ ret'.GasTipCap # NilInt
          /\ (o = <<>> /\ ~Cfg'.EIP1559DynamicFees) => ret'.GasPrice # NilInt]_vars

\* C32, reached: in dynamic-fee mode a caller's GasPrice option has replaced
\* the nil GasPrice next to the computed GasFeeCap and GasTipCap
C32_Witness ==
  /\ op = "NewTXKeyOpts"
  /\ pc = "done"
  /\ node # NoAnswers
  /\ node.read.err = NoErr
  /\ ~node.transactorFails
  /\ Cfg.EIP1559DynamicFees
  /\ args.o # <<>>
  /\ ret.GasPrice = BigInt("WithGasPrice")
  /\ ret.GasFeeCap # NilInt
  /\ ret.Nonce = BigInt(node.read.PendingNonce)

\* C33: preparing transaction options allocates no nonce: a call of
\* NewTXOpts or NewTXKeyOpts leaves the nonce manager's records as they were,
\* and the nonce of the options is the pending nonce the node reports for
\* the key, so that two calls for the same key between which the node's
\* answer does not change return options with the same nonce.
C33_OptionsAllocateNoNonce ==
  [][(pc = "idle" /\ op' \in {"NewTXKeyOpts", "NewTXOpts"}) =>
       /\ Nonces' = Nonces
       /\ OptsConfigured => ret'.Nonce = BigInt(node'.read.PendingNonce)]_vars

\* C33, reached: options for a key carry the node's pending nonce, which is
\* ahead of the nonce manager's record of that key
C33_Witness ==
  /\ op = "NewTXKeyOpts"
  /\ pc = "done"
  /\ node # NoAnswers
  /\ node.read.err = NoErr
  /\ ~node.transactorFails
  /\ args.keyNum \in DOMAIN Nonces
  /\ node.read.PendingNonce > Nonces[args.keyNum]
  /\ ret.Nonce = BigInt(node.read.PendingNonce)

(***************************************************************************)
(* C34: when two goroutines prepare options for distinct keys and one of   *)
(* them makes the dynamic-fee downgrade, every options object returned     *)
(* without a context error is priced for one fee mode: GasPrice is not     *)
(* nil, or GasFeeCap and GasTipCap are both not nil.                       *)
(***************************************************************************)
C34_ConcurrentOptionsPriced ==
  \A i \in 1..Len(callers) :
    (callers[i].pc = "done" /\ callers[i].ret.ContextErr = NoErr) =>
      \/ callers[i].ret.GasPrice # NilInt
      \/ callers[i].ret.GasFeeCap # NilInt /\ callers[i].ret.GasTipCap # NilInt

\* C35: DeployContract waits for the deployed code in at most DeployAttempts
\* attempts; it makes another attempt only after a wait that failed with a
\* "no contract code" error while the deployment transaction was mined with
\* a status other than zero; a deployment transaction mined with status zero
\* ends the loop at that attempt.  When the loop ends with an error, Decode
\* (tx, nil) is called, once, and DeployContract then returns that error,
\* wrapped, with an empty DeploymentData.
C35_DeployRetryProtocol ==
  [][op = "DeployContract" =>
       /\ attempt' <= DeployAttempts
       /\ (pc = "deploy_wait_mined" /\ pc' = "deploy_wait") =>
            /\ RetryIf(poll.err)
            /\ poll'.receipt # NilReceipt
            /\ poll'.receipt.status # 0
            /\ attempt < DeployAttempts
            /\ attempt' = attempt + 1
       /\ (pc = "deploy_wait_mined" /\ pc' # "deploy_wait") =>
            /\ attempt' = attempt
            /\ node'.retryErr # NoErr
            /\ node'.retryErr # poll.err =>
                 node'.retryErr = ErrorsNew("deployment transaction was reverted",
                                            "DeployContract")
            /\ RetryIf(node'.retryErr) => attempt = DeployAttempts
            /\ pc' \in {"deploy_failed", "wm_query"}
       /\ (pc' = "deploy_failed" /\ pc # "deploy_failed") =>
            pc \notin {"idle", "deploy_wait", "done"}
       /\ pc = "deploy_failed" =>
            /\ pc' = "done"
            /\ ret'.data = EmptyDeploymentData
            /\ ret'.err = wrapErrInMessageWithASuggestion(node.retryErr)
       /\ (pc' = "done" /\ pc \notin {"idle", "done"}) =>
            (ret'.err # NoErr <=> pc = "deploy_failed")]_vars

\* C35, reached: the second attempt found the deployment transaction mined
\* with status zero, and DeployContract returned that error after Decode
C35_Witness ==
  /\ op = "DeployContract"
  /\ pc = "done"
  /\ attempt > 1
  /\ attempt < DeployAttempts
  /\ "retryErr" \in DOMAIN node
  /\ node.retryErr = ErrorsNew("deployment transaction was reverted", "DeployContract")
  /\ ret.data = EmptyDeploymentData
  /\ ret.err = wrapErrInMessageWithASuggestion(node.retryErr)

\* C36: once NewClientRaw has returned a client, a tracing level other than
\* NONE implies that the client holds a tracer; the level changes only to
\* NONE; so every call of Decode that passes the trace gate of l. 475 finds
\* a tracer to call.
C36_TracerHeldWhenTracing ==
  [][/\ ClientHeld' =>
          (Cfg'.TracingLevel # TracingLevel_None => construction'.tracer)
     /\ (ClientHeld /\ Cfg'.TracingLevel # Cfg.TracingLevel) =>
          Cfg'.TracingLevel = TracingLevel_None
     /\ (/\ ClientHeld
         /\ pc = "trace"
         /\ Cfg.TracingLevel # TracingLevel_None
         /\ TraceGate(Cfg.TracingLevel, revertErr)) => construction.tracer]_vars

\* a call of Decode on a constructed client has traced its transaction
C36_Witness ==
  /\ ClientHeld
  /\ construction.tracer
  /\ op = "Decode"
  /\ pc = "done"
  /\ \E i \in DOMAIN events : events[i] = "TraceGethTX"

\* C37: for every fromKeyNum that is not an index of a loaded key, negative
\* values and the number of loaded keys included, TransferETHFromKey
\* returns an error that wraps ErrNoKeyLoaded, before it queries the node,
\* allocates a nonce, signs or sends, and it does not crash.
C37_InvalidFromKeyRejected ==
  [][(/\ pc = "idle"
      /\ op' = "TransferETHFromKey"
      /\ args'.fromKeyNum \notin 0..(NumKeys - 1)) =>
       /\ pc' = "done"
       /\ ErrorContains(ret'.err, ErrNoKeyLoaded)
       /\ Nonces' = Nonces
       /\ events' = <<>>]_vars

\* the options this step returns, prepared without caller overrides, are
\* priced in legacy mode: a gas price and no fee cap or tip cap
LegacyPriced ==
  /\ ret'.GasPrice # NilInt
  /\ ret'.GasFeeCap = NilInt
  /\ ret'.GasTipCap = NilInt

\* this step is the successful return of NewClientRaw
ConstructionSucceeds ==
  /\ construction # NoConstruction
  /\ construction.pc = "finishing"
  /\ ClientHeld'

\* the client was constructed with gas estimation and dynamic fees on
BothEnabled(c) == c.GasPriceEstimationEnabled /\ c.EIP1559DynamicFees

\* C38, as stated: with gas estimation and dynamic fees both enabled, a
\* successful construction on a node that does not support the dynamic-fee
\* methods ends with dynamic-fee mode off, and the options prepared on that
\* client (the mode is never switched on again, so the first ones too) are
\* priced in legacy mode.
C38_DowngradeAtConstruction_AsWritten ==
  [][/\ (ConstructionSucceeds /\ BothEnabled(Cfg) /\ ~construction'.eip1559) =>
          ~Cfg'.EIP1559DynamicFees
     /\ (/\ ClientHeld
         /\ BothEnabled(construction.cfg)
         /\ ~construction.eip1559
         /\ OptsConfigured
         /\ args'.o = <<>>) => LegacyPriced]_vars

\* C38, amended: with gas estimation and dynamic fees both enabled on a
\* network that is not simulated, a successful construction whose
\* dynamic-fee query the node rejects as an unsupported method ends with
\* dynamic-fee mode off, and the options prepared on that client, the first
\* ones included, are priced in legacy mode.
C38_DowngradeAtConstruction ==
  [][/\ (/\ ConstructionSucceeds
         /\ BothEnabled(Cfg)
         /\ ~Cfg.Simulated
         /\ ErrorContains(construction'.fees.dyn.err, EIP1559UnsupportedText)) =>
          ~Cfg'.EIP1559DynamicFees
     /\ (/\ ClientHeld
         /\ BothEnabled(construction.cfg)
         /\ ~construction.cfg.Simulated
         /\ ErrorContains(construction.fees.dyn.err, EIP1559UnsupportedText)
         /\ OptsConfigured
         /\ args'.o = <<>>) => ~Cfg.EIP1559DynamicFees /\ LegacyPriced]_vars

\* C38, reached: options prepared on a client whose construction found the
\* dynamic-fee methods unsupported carry a gas price only
C38_Witness ==
  /\ ClientHeld
  /\ BothEnabled(construction.cfg)
  /\ ~construction.cfg.Simulated
  /\ ErrorContains(construction.fees.dyn.err, EIP1559UnsupportedText)
  /\ op = "NewTXKeyOpts"
  /\ pc = "done"
  /\ node # NoAnswers
  /\ node.read.err = NoErr
  /\ ~node.transactorFails
  /\ args.o = <<>>
  /\ ret.GasPrice # NilInt
  /\ ret.GasFeeCap = NilInt
  /\ ~Cfg.EIP1559DynamicFees

====
